---------------------------- MODULE Spec2Model ----------------------------
(***************************************************************************)
(* A model of the c-kzg-4844 Rust bindings (bindings/rust/src) and of the  *)
(* KZG engine they call.  The scalar field and the byte widths are scaled  *)
(* down (a 17-element field, 2-byte field elements, 4 field elements per   *)
(* blob as in the minimal profile); G1 and G2 points are represented by    *)
(* their discrete logarithms, so a pairing equation e([a],[b]) = e([c],[d])*)
(* is the field equation a*b = c*d.                                        *)
(***************************************************************************)
EXTENDS Integers, Sequences, FiniteSets, TLC

(***************************************************************************)
(* Program constants (scaled).                                             *)
(***************************************************************************)
BLS_MODULUS == 17
PRIMITIVE_ROOT == 7
BYTES_PER_FIELD_ELEMENT == 2
BYTES_PER_COMMITMENT == 2
BYTES_PER_PROOF == 2
FIELD_ELEMENTS_PER_BLOB == 4
BYTES_PER_BLOB == FIELD_ELEMENTS_PER_BLOB * BYTES_PER_FIELD_ELEMENT
FIELD_ELEMENTS_PER_EXT_BLOB == 2 * FIELD_ELEMENTS_PER_BLOB
FIELD_ELEMENTS_PER_CELL == 2
BYTES_PER_CELL == FIELD_ELEMENTS_PER_CELL * BYTES_PER_FIELD_ELEMENT
CELLS_PER_EXT_BLOB == FIELD_ELEMENTS_PER_EXT_BLOB \div FIELD_ELEMENTS_PER_CELL

\* One byte holds a value below ByteBase.
ByteBase == 5

\* The return codes of the C library.
C_KZG_RET == {"C_KZG_OK", "C_KZG_BADARGS", "C_KZG_ERROR", "C_KZG_MALLOC"}

(***************************************************************************)
(* Sequence helpers.                                                       *)
(***************************************************************************)
RECURSIVE SumSeq(_)
SumSeq(xs) == IF xs = <<>> THEN 0 ELSE Head(xs) + SumSeq(Tail(xs))

RECURSIVE Flatten(_)
Flatten(xss) == IF xss = <<>> THEN <<>> ELSE Head(xss) \o Flatten(Tail(xss))

Range(xs) == {xs[i] : i \in DOMAIN xs}

RECURSIVE Pow2(_)
Pow2(k) == IF k = 0 THEN 1 ELSE 2 * Pow2(k - 1)

RECURSIVE Log2(_)
Log2(n) == IF n <= 1 THEN 0 ELSE 1 + Log2(n \div 2)

(***************************************************************************)
(* The scalar field (external collaborator: the blst_fr functions).        *)
(***************************************************************************)
fr_add(a, b) == (a + b) % BLS_MODULUS
fr_sub(a, b) == (a - b + BLS_MODULUS) % BLS_MODULUS
fr_mul(a, b) == (a * b) % BLS_MODULUS

RECURSIVE fr_pow(_, _)
fr_pow(a, n) == IF n = 0 THEN 1 ELSE fr_mul(a, fr_pow(a, n - 1))

\* blst_fr_eucl_inverse: the inverse of zero is zero.
InverseTable == [a \in 0..(BLS_MODULUS - 1) |-> fr_pow(a, BLS_MODULUS - 2)]
fr_inv(a) == InverseTable[a]
fr_div(a, b) == fr_mul(a, fr_inv(b))

fr_sum(xs) == SumSeq(xs) % BLS_MODULUS

(***************************************************************************)
(* Roots of unity and the bit-reversal permutation.                        *)
(***************************************************************************)
\* SCALE2_ROOT_OF_UNITY[i] is a 2^i'th root of unity.
SCALE2_ROOT_OF_UNITY(i) == fr_pow(PRIMITIVE_ROOT, (BLS_MODULUS - 1) \div Pow2(i))

RECURSIVE reverse_bits_limited(_, _)
\* The value of the `bits` low bits of v, in reversed order.
reverse_bits_limited(bits, v) ==
    IF bits = 0 THEN 0
    ELSE (v % 2) * Pow2(bits - 1) + reverse_bits_limited(bits - 1, v \div 2)

\* Sequences are 1-based: element i+1 comes from index reverse(i).
bit_reversal_permutation(xs) ==
    [i \in 1..Len(xs) |-> xs[reverse_bits_limited(Log2(Len(xs)), i - 1) + 1]]

\* domain_size + 1 ascending powers of the domain's root; starts and ends with one.
roots_of_unity ==
    [i \in 1..(FIELD_ELEMENTS_PER_EXT_BLOB + 1) |->
        fr_pow(SCALE2_ROOT_OF_UNITY(Log2(FIELD_ELEMENTS_PER_EXT_BLOB)), i - 1)]

brp_roots_of_unity ==
    bit_reversal_permutation(SubSeq(roots_of_unity, 1, FIELD_ELEMENTS_PER_EXT_BLOB))

reverse_roots_of_unity ==
    [i \in 1..(FIELD_ELEMENTS_PER_EXT_BLOB + 1) |->
        roots_of_unity[FIELD_ELEMENTS_PER_EXT_BLOB + 2 - i]]

(***************************************************************************)
(* Byte encodings.                                                         *)
(***************************************************************************)
Byte == 0..(ByteBase - 1)

RECURSIVE BigEndianValue(_)
\* The integer a byte string encodes, most significant byte first.
BigEndianValue(bytes) ==
    IF bytes = <<>> THEN 0
    ELSE bytes[Len(bytes)] + ByteBase * BigEndianValue(SubSeq(bytes, 1, Len(bytes) - 1))

RECURSIVE BigEndianBytes(_, _)
\* The `width`-byte big-endian encoding of v.
BigEndianBytes(width, v) ==
    IF width = 0 THEN <<>>
    ELSE Append(BigEndianBytes(width - 1, v \div ByteBase), v % ByteBase)

\* All byte strings of a given length.
BytesOfLen(n) == [1..n -> Byte]

Bytes32 == BytesOfLen(BYTES_PER_FIELD_ELEMENT)
Bytes48 == BytesOfLen(BYTES_PER_COMMITMENT)

\* A C call's outcome: the return code and what was written to the out-parameter.
CRet(code, out) == [ret |-> code, out |-> out]
CFail(code) == [ret |-> code]

\* Canonical check then conversion: a value >= the modulus is rejected.
bytes_to_bls_field(b) ==
    IF BigEndianValue(b) < BLS_MODULUS
    THEN CRet("C_KZG_OK", BigEndianValue(b))
    ELSE CFail("C_KZG_BADARGS")

bytes_from_bls_field(x) == BigEndianBytes(BYTES_PER_FIELD_ELEMENT, x)

\* The legacy conversion has no return code: it cannot reject, the value is
\* reduced into the field.
legacy_bytes_to_bls_field(b) == BigEndianValue(b) % BLS_MODULUS

\* Encodings below the group order are points of the prime-order subgroup (the
\* point [v]G1, zero being the point at infinity); the next NotInSubgroup
\* encodings are curve points outside the subgroup; the rest decode to no point.
NotInSubgroup == 4
OnCurve(b) == BigEndianValue(b) < BLS_MODULUS + NotInSubgroup
InG1(b) == BigEndianValue(b) < BLS_MODULUS

\* blst_p1_uncompress, then the subgroup check.
validate_kzg_g1(b) ==
    IF ~OnCurve(b) THEN CFail("C_KZG_BADARGS")
    ELSE IF ~InG1(b) THEN CFail("C_KZG_BADARGS")
    ELSE CRet("C_KZG_OK", BigEndianValue(b))

bytes_to_kzg_commitment(b) == validate_kzg_g1(b)
bytes_to_kzg_proof(b) == validate_kzg_g1(b)
bytes_from_g1(point) == BigEndianBytes(BYTES_PER_COMMITMENT, point)

\* The i-th field element's bytes of a blob or cell (i from 1).
ElementBytes(bytes, i) ==
    SubSeq(bytes, (i - 1) * BYTES_PER_FIELD_ELEMENT + 1, i * BYTES_PER_FIELD_ELEMENT)

\* Every element is range-checked; the first failure rejects the blob.
blob_to_polynomial(blob) ==
    IF \E i \in 1..FIELD_ELEMENTS_PER_BLOB :
            bytes_to_bls_field(ElementBytes(blob, i)).ret # "C_KZG_OK"
    THEN CFail("C_KZG_BADARGS")
    ELSE CRet("C_KZG_OK",
              [i \in 1..FIELD_ELEMENTS_PER_BLOB |->
                  bytes_to_bls_field(ElementBytes(blob, i)).out])

(***************************************************************************)
(* The trusted setup, as the ceremony with secret tau produces it.         *)
(***************************************************************************)
NUM_G2_POINTS == 3

\* The root of unity of the blob-sized domain, and its j-th power.
BlobRoot(j) == roots_of_unity[((2 * j) % FIELD_ELEMENTS_PER_EXT_BLOB) + 1]

\* [L_j(tau)]G1 for the j-th Lagrange polynomial of the blob domain: the
\* inverse transform of the monomial points.
LagrangeAt(tau, j) ==
    fr_mul(fr_inv(FIELD_ELEMENTS_PER_BLOB),
           fr_sum([k \in 1..FIELD_ELEMENTS_PER_BLOB |->
                      fr_mul(fr_pow(tau, k - 1),
                             fr_inv(fr_pow(BlobRoot(j), k - 1)))]))

KZGSettings(tau) ==
    [ roots_of_unity |-> roots_of_unity,
      brp_roots_of_unity |-> brp_roots_of_unity,
      reverse_roots_of_unity |-> reverse_roots_of_unity,
      g1_values_monomial |->
          [k \in 1..FIELD_ELEMENTS_PER_BLOB |-> fr_pow(tau, k - 1)],
      g1_values_lagrange_brp |->
          bit_reversal_permutation(
              [j \in 1..FIELD_ELEMENTS_PER_BLOB |-> LagrangeAt(tau, j - 1)]),
      g2_values_monomial |-> [k \in 1..NUM_G2_POINTS |-> fr_pow(tau, k - 1)] ]

(***************************************************************************)
(* Group operations on discrete logarithms.                                *)
(***************************************************************************)
\* Multi-scalar multiplication: sum of coeffs[i] * points[i].
g1_lincomb(points, coeffs) ==
    fr_sum([i \in 1..Len(coeffs) |-> fr_mul(points[i], coeffs[i])])

\* e(a1, a2) = e(b1, b2)
pairings_verify(a1, a2, b1, b2) == fr_mul(a1, a2) = fr_mul(b1, b2)

(***************************************************************************)
(* The KZG engine (the C library behind the bindings).                     *)
(***************************************************************************)
\* The domain point the i-th blob element is the evaluation at.
BlobDomain(i) == brp_roots_of_unity[i]

\* Model of the domain-separated hash-to-field collaborator: a deterministic
\* function of the hashed bytes.
RECURSIVE hash_to_bls_field(_)
hash_to_bls_field(bytes) ==
    IF bytes = <<>> THEN 3
    ELSE (5 * hash_to_bls_field(SubSeq(bytes, 1, Len(bytes) - 1))
          + bytes[Len(bytes)] + 1) % BLS_MODULUS

\* Fiat-Shamir challenge of a blob and its commitment.
compute_challenge(blob, commitment) ==
    hash_to_bls_field(blob \o bytes_from_g1(commitment))

\* The barycentric formula alone, also at a point of the domain.
evaluate_polynomial_in_evaluation_form_barycentric(poly, z) ==
    fr_mul(fr_div(fr_sub(fr_pow(z, FIELD_ELEMENTS_PER_BLOB), 1),
                  FIELD_ELEMENTS_PER_BLOB % BLS_MODULUS),
           fr_sum([i \in 1..FIELD_ELEMENTS_PER_BLOB |->
                      fr_div(fr_mul(poly[i], BlobDomain(i)),
                             fr_sub(z, BlobDomain(i)))]))

\* p(z) for a polynomial in evaluation form: the stored value when z is a
\* domain point, the barycentric formula otherwise.
evaluate_polynomial_in_evaluation_form(poly, z) ==
    IF \E i \in 1..FIELD_ELEMENTS_PER_BLOB : BlobDomain(i) = z
    THEN poly[CHOOSE i \in 1..FIELD_ELEMENTS_PER_BLOB : BlobDomain(i) = z]
    ELSE fr_mul(fr_div(fr_sub(fr_pow(z, FIELD_ELEMENTS_PER_BLOB), 1),
                       FIELD_ELEMENTS_PER_BLOB % BLS_MODULUS),
                fr_sum([i \in 1..FIELD_ELEMENTS_PER_BLOB |->
                           fr_div(fr_mul(poly[i], BlobDomain(i)),
                                  fr_sub(z, BlobDomain(i)))]))

poly_to_kzg_commitment(poly, s) == g1_lincomb(s.g1_values_lagrange_brp, poly)

\* The quotient at the domain point m that equals z.
quotient_eval_within_domain(poly, y, z, m) ==
    fr_sum([i \in 1..FIELD_ELEMENTS_PER_BLOB |->
               IF i = m THEN 0
               ELSE fr_div(fr_mul(fr_sub(poly[i], y), BlobDomain(i)),
                           fr_mul(z, fr_sub(z, BlobDomain(i))))])

\* q(X) = (p(X) - y) / (X - z) in evaluation form.
quotient_polynomial(poly, y, z) ==
    [i \in 1..FIELD_ELEMENTS_PER_BLOB |->
        IF BlobDomain(i) = z
        THEN quotient_eval_within_domain(poly, y, z, i)
        ELSE fr_div(fr_sub(poly[i], y), fr_sub(BlobDomain(i), z))]

\* The proof point and y = p(z).
compute_kzg_proof_impl(poly, z, s) ==
    LET y == evaluate_polynomial_in_evaluation_form(poly, z)
    IN  [proof |-> g1_lincomb(s.g1_values_lagrange_brp, quotient_polynomial(poly, y, z)),
         y |-> y]

\* e(commitment - [y]G1, G2) = e(proof, [tau]G2 - [z]G2)
verify_kzg_proof_impl(commitment, z, y, proof, s) ==
    pairings_verify(fr_sub(commitment, y), 1,
                    proof, fr_sub(s.g2_values_monomial[2], z))

c_blob_to_kzg_commitment(blob, s) ==
    LET poly == blob_to_polynomial(blob)
    IN  IF poly.ret # "C_KZG_OK" THEN CFail(poly.ret)
        ELSE CRet("C_KZG_OK", bytes_from_g1(poly_to_kzg_commitment(poly.out, s)))

c_compute_kzg_proof(blob, z_bytes, s) ==
    LET poly == blob_to_polynomial(blob)
        z == bytes_to_bls_field(z_bytes)
    IN  IF poly.ret # "C_KZG_OK" THEN CFail(poly.ret)
        ELSE IF z.ret # "C_KZG_OK" THEN CFail(z.ret)
        ELSE LET r == compute_kzg_proof_impl(poly.out, z.out, s)
             IN  CRet("C_KZG_OK", <<bytes_from_g1(r.proof), bytes_from_bls_field(r.y)>>)

c_compute_blob_kzg_proof(blob, commitment_bytes, s) ==
    LET poly == blob_to_polynomial(blob)
        c == bytes_to_kzg_commitment(commitment_bytes)
    IN  IF poly.ret # "C_KZG_OK" THEN CFail(poly.ret)
        ELSE IF c.ret # "C_KZG_OK" THEN CFail(c.ret)
        ELSE CRet("C_KZG_OK",
                  bytes_from_g1(compute_kzg_proof_impl(
                      poly.out, compute_challenge(blob, c.out), s).proof))

c_verify_kzg_proof(commitment_bytes, z_bytes, y_bytes, proof_bytes, s) ==
    LET c == bytes_to_kzg_commitment(commitment_bytes)
        z == bytes_to_bls_field(z_bytes)
        y == bytes_to_bls_field(y_bytes)
        p == bytes_to_kzg_proof(proof_bytes)
    IN  IF c.ret # "C_KZG_OK" THEN CFail(c.ret)
        ELSE IF z.ret # "C_KZG_OK" THEN CFail(z.ret)
        ELSE IF y.ret # "C_KZG_OK" THEN CFail(y.ret)
        ELSE IF p.ret # "C_KZG_OK" THEN CFail(p.ret)
        ELSE CRet("C_KZG_OK", verify_kzg_proof_impl(c.out, z.out, y.out, p.out, s))

c_verify_blob_kzg_proof(blob, commitment_bytes, proof_bytes, s) ==
    LET c == bytes_to_kzg_commitment(commitment_bytes)
        poly == blob_to_polynomial(blob)
        p == bytes_to_kzg_proof(proof_bytes)
    IN  IF c.ret # "C_KZG_OK" THEN CFail(c.ret)
        ELSE IF poly.ret # "C_KZG_OK" THEN CFail(poly.ret)
        ELSE IF p.ret # "C_KZG_OK" THEN CFail(p.ret)
        ELSE LET z == compute_challenge(blob, c.out)
                 y == evaluate_polynomial_in_evaluation_form(poly.out, z)
             IN  CRet("C_KZG_OK", verify_kzg_proof_impl(c.out, z, y, p.out, s))

\* The random scalar of the batch: a hash of the whole transcript.
compute_r(commitments, zs, ys, proofs) ==
    hash_to_bls_field(
        <<Len(commitments)>> \o
        Flatten([i \in 1..Len(commitments) |->
                    bytes_from_g1(commitments[i]) \o bytes_from_bls_field(zs[i])
                    \o bytes_from_bls_field(ys[i]) \o bytes_from_g1(proofs[i])]))

\* One pairing check of the random linear combination of the n equations.
verify_kzg_proof_batch(commitments, zs, ys, proofs, s) ==
    LET n == Len(commitments)
        r == compute_r(commitments, zs, ys, proofs)
        r_powers == [i \in 1..n |-> fr_pow(r, i - 1)]
        proof_lincomb == g1_lincomb(proofs, r_powers)
        proof_z_lincomb == g1_lincomb(proofs, [i \in 1..n |-> fr_mul(r_powers[i], zs[i])])
        C_minus_y == [i \in 1..n |-> fr_sub(commitments[i], ys[i])]
        C_minus_y_lincomb == g1_lincomb(C_minus_y, r_powers)
        rhs_g1 == fr_add(C_minus_y_lincomb, proof_z_lincomb)
    IN  pairings_verify(proof_lincomb, s.g2_values_monomial[2], rhs_g1, 1)

c_verify_blob_kzg_proof_batch(blobs, commitments_bytes, proofs_bytes, n, s) ==
    IF n = 0 THEN CRet("C_KZG_OK", TRUE)
    ELSE IF n = 1
    THEN c_verify_blob_kzg_proof(blobs[1], commitments_bytes[1], proofs_bytes[1], s)
    ELSE IF \E i \in 1..n :
               \/ bytes_to_kzg_commitment(commitments_bytes[i]).ret # "C_KZG_OK"
               \/ blob_to_polynomial(blobs[i]).ret # "C_KZG_OK"
               \/ bytes_to_kzg_proof(proofs_bytes[i]).ret # "C_KZG_OK"
    THEN CFail("C_KZG_BADARGS")
    ELSE LET cs == [i \in 1..n |-> bytes_to_kzg_commitment(commitments_bytes[i]).out]
             polys == [i \in 1..n |-> blob_to_polynomial(blobs[i]).out]
             zs == [i \in 1..n |-> compute_challenge(blobs[i], cs[i])]
             ys == [i \in 1..n |->
                       evaluate_polynomial_in_evaluation_form(polys[i], zs[i])]
             ps == [i \in 1..n |-> bytes_to_kzg_proof(proofs_bytes[i]).out]
         IN  CRet("C_KZG_OK", verify_kzg_proof_batch(cs, zs, ys, ps, s))

(***************************************************************************)
(* The legacy C interface (bindings.rs) and the C library of lib.rs.       *)
(***************************************************************************)
\* bindings.rs: blob_to_kzg_commitment returns nothing, so no blob is rejected.
legacy_blob_to_kzg_commitment(blob, s) ==
    poly_to_kzg_commitment(
        [i \in 1..FIELD_ELEMENTS_PER_BLOB |->
            legacy_bytes_to_bls_field(ElementBytes(blob, i))], s)

\* lib.rs: the verification functions have no boolean out-parameter; the return
\* code alone says whether the proof verified, and a proof that does not verify
\* comes back as the non-OK code `fail`.
lib_c_verify_kzg_proof(commitment_bytes, z_bytes, y_bytes, proof_bytes, s, fail) ==
    LET r == c_verify_kzg_proof(commitment_bytes, z_bytes, y_bytes, proof_bytes, s)
    IN  IF r.ret # "C_KZG_OK" THEN r.ret ELSE IF r.out THEN "C_KZG_OK" ELSE fail

lib_c_verify_blob_kzg_proof(blob, commitment_bytes, proof_bytes, s, fail) ==
    LET r == c_verify_blob_kzg_proof(blob, commitment_bytes, proof_bytes, s)
    IN  IF r.ret # "C_KZG_OK" THEN r.ret ELSE IF r.out THEN "C_KZG_OK" ELSE fail

lib_c_verify_blob_kzg_proof_batch(blobs, commitments_bytes, proofs_bytes, n, s, fail) ==
    LET r == c_verify_blob_kzg_proof_batch(blobs, commitments_bytes, proofs_bytes, n, s)
    IN  IF r.ret # "C_KZG_OK" THEN r.ret ELSE IF r.out THEN "C_KZG_OK" ELSE fail

\* lib.rs: compute_blob_kzg_proof takes no commitment; the library derives it.
lib_c_compute_blob_kzg_proof(blob, s) ==
    LET c == c_blob_to_kzg_commitment(blob, s)
    IN  IF c.ret # "C_KZG_OK" THEN CFail(c.ret)
        ELSE c_compute_blob_kzg_proof(blob, c.out, s)

(***************************************************************************)
(* The Rust wrappers.  A result is Ok(val) or Err(err, info); ffi lists    *)
(* the return codes of the C calls the wrapper made.                       *)
(***************************************************************************)
Ok(v, ffi) == [ok |-> TRUE, val |-> v, ffi |-> ffi]
Err(kind, info, ffi) == [ok |-> FALSE, err |-> kind, info |-> info, ffi |-> ffi]

\* assume_init() whatever the return code: on a failure the caller gets the
\* bytes the buffer happened to hold, here the empty string.
FromC_unchecked(res) ==
    Ok(IF res.ret = "C_KZG_OK" THEN res.out ELSE <<>>, <<res.ret>>)

\* `if let C_KZG_OK = res { Ok(out.assume_init()) } else { Err(CError(res)) }`
FromC(res) ==
    IF res.ret = "C_KZG_OK" THEN Ok(res.out, <<res.ret>>)
    ELSE Err("CError", res.ret, <<res.ret>>)

\* `if res == C_KZG_OK { Ok(()) } else { Err(CError(res)) }`
FromCode(code) ==
    IF code = "C_KZG_OK" THEN Ok("unit", <<code>>)
    ELSE Err("CError", code, <<code>>)

KZGCommitment_blob_to_kzg_commitment(blob, s) ==
    FromC(c_blob_to_kzg_commitment(blob, s))

KZGProof_compute_kzg_proof(blob, z_bytes, s) ==
    FromC(c_compute_kzg_proof(blob, z_bytes, s))

KZGProof_compute_blob_kzg_proof(blob, commitment_bytes, s) ==
    FromC(c_compute_blob_kzg_proof(blob, commitment_bytes, s))

KZGProof_verify_kzg_proof(commitment_bytes, z_bytes, y_bytes, proof_bytes, s) ==
    FromC(c_verify_kzg_proof(commitment_bytes, z_bytes, y_bytes, proof_bytes, s))

\* Mutant: the two 48-byte arguments are passed in the wrong order.
KZGProof_verify_blob_kzg_proof_swapped(blob, commitment_bytes, proof_bytes, s) ==
    FromC(c_verify_blob_kzg_proof(blob, proof_bytes, commitment_bytes, s))

KZGProof_verify_blob_kzg_proof(blob, commitment_bytes, proof_bytes, s) ==
    FromC(c_verify_blob_kzg_proof(blob, commitment_bytes, proof_bytes, s))

\* Mutant: the first length check compares the blobs with the proofs, so the
\* commitments are never counted.
KZGProof_verify_blob_kzg_proof_batch_unchecked(blobs, commitments_bytes, proofs_bytes, s) ==
    IF Len(blobs) # Len(proofs_bytes)
    THEN Err("MismatchLength",
             <<"blobs", Len(blobs), "proofs", Len(proofs_bytes)>>, <<>>)
    ELSE FromC(c_verify_blob_kzg_proof_batch(
                   blobs, commitments_bytes, proofs_bytes, Len(blobs), s))

\* Mutant: a rejected input is reported as a proof that does not verify.
KZGProof_verify_blob_kzg_proof_batch_lenient(blobs, commitments_bytes, proofs_bytes, s) ==
    IF Len(blobs) # Len(commitments_bytes)
    THEN Err("MismatchLength",
             <<"blobs", Len(blobs), "commitments", Len(commitments_bytes)>>, <<>>)
    ELSE IF Len(blobs) # Len(proofs_bytes)
    THEN Err("MismatchLength",
             <<"blobs", Len(blobs), "proofs", Len(proofs_bytes)>>, <<>>)
    ELSE LET res == c_verify_blob_kzg_proof_batch(
                        blobs, commitments_bytes, proofs_bytes, Len(blobs), s)
         IN  IF res.ret = "C_KZG_BADARGS" THEN Ok(FALSE, <<res.ret>>) ELSE FromC(res)

\* Mutant: an empty batch is refused instead of being handed to the library.
KZGProof_verify_blob_kzg_proof_batch_nonempty(blobs, commitments_bytes, proofs_bytes, s) ==
    IF Len(blobs) = 0 \/ Len(blobs) # Len(commitments_bytes)
    THEN Err("MismatchLength",
             <<"blobs", Len(blobs), "commitments", Len(commitments_bytes)>>, <<>>)
    ELSE IF Len(blobs) # Len(proofs_bytes)
    THEN Err("MismatchLength",
             <<"blobs", Len(blobs), "proofs", Len(proofs_bytes)>>, <<>>)
    ELSE FromC(c_verify_blob_kzg_proof_batch(
                   blobs, commitments_bytes, proofs_bytes, Len(blobs), s))

KZGProof_verify_blob_kzg_proof_batch(blobs, commitments_bytes, proofs_bytes, s) ==
    IF Len(blobs) # Len(commitments_bytes)
    THEN Err("MismatchLength",
             <<"blobs", Len(blobs), "commitments", Len(commitments_bytes)>>, <<>>)
    ELSE IF Len(blobs) # Len(proofs_bytes)
    THEN Err("MismatchLength",
             <<"blobs", Len(blobs), "proofs", Len(proofs_bytes)>>, <<>>)
    ELSE FromC(c_verify_blob_kzg_proof_batch(
                   blobs, commitments_bytes, proofs_bytes, Len(blobs), s))

Lib_KZGCommitment_blob_to_kzg_commitment(blob, s) ==
    FromC(c_blob_to_kzg_commitment(blob, s))

Lib_KZGProof_compute_blob_kzg_proof(blob, s) ==
    FromC(lib_c_compute_blob_kzg_proof(blob, s))

Lib_KZGProof_verify_kzg_proof(commitment_bytes, z_bytes, y_bytes, proof_bytes, s, fail) ==
    FromCode(lib_c_verify_kzg_proof(
                 commitment_bytes, z_bytes, y_bytes, proof_bytes, s, fail))

Lib_KZGProof_verify_blob_kzg_proof(blob, commitment_bytes, proof_bytes, s, fail) ==
    FromCode(lib_c_verify_blob_kzg_proof(blob, commitment_bytes, proof_bytes, s, fail))

Lib_KZGProof_verify_blob_kzg_proof_batch(blobs, commitments_bytes, proofs_bytes, s, fail) ==
    IF Len(blobs) # Len(commitments_bytes)
    THEN Err("MismatchLength",
             <<"blobs", Len(blobs), "commitments", Len(commitments_bytes)>>, <<>>)
    ELSE IF Len(blobs) # Len(proofs_bytes)
    THEN Err("MismatchLength",
             <<"blobs", Len(blobs), "proofs", Len(proofs_bytes)>>, <<>>)
    ELSE FromCode(lib_c_verify_blob_kzg_proof_batch(
                      blobs, commitments_bytes, proofs_bytes, Len(blobs), s, fail))

(***************************************************************************)
(* The state: a loaded setup and what a caller holds (as tests::test_simple*)
(* does): blobs, the commitments and proofs it collected for them, and the *)
(* last call with its result.                                              *)
(***************************************************************************)
VARIABLES settings, blobs, commitments, proofs, tampers, last

\* The allocations of the C library, the KZGSettings values that own them,
\* the calls made to the C loader, the FILE streams the process holds open,
\* the loads run by the cache initializer of each precompute level, the
\* process-wide cache of default settings and the threads calling into it.
VARIABLES heap, handles, loader_calls, open_files, level_loads, cache, threads

\* The zkvm build of the library: its malloc, calloc and free over the global
\* allocator of the guest program.
VARIABLE zkvm

vars == <<settings, blobs, commitments, proofs, tampers, last,
          heap, handles, loader_calls, open_files, level_loads, cache, threads,
          zkvm>>

setupVars == <<heap, handles, loader_calls, open_files, level_loads, zkvm>>
cacheVars == <<cache, threads>>

\* The highest precompute level with a cache slot (CACHE_0 .. CACHE_15).
MAX_PRECOMPUTE == 15
EmptySlot == [set |-> FALSE]
\* The library is not built for a zkvm; its allocator is absent.
NoZkvm == [build |-> "none"]

\* Nothing was loaded through the modelled loader and no thread is running.
NoSetupActivity ==
    /\ heap = <<>>
    /\ handles = <<>>
    /\ loader_calls = 0
    /\ open_files = 0
    /\ level_loads = [k \in 0..MAX_PRECOMPUTE |-> 0]
    /\ zkvm = NoZkvm
    /\ cache = [k \in 0..MAX_PRECOMPUTE |-> EmptySlot]
    /\ threads = <<>>

\* Bounds of the model.
MaxBlobs == 2
MaxTampers == 1

\* The blob holding the given element values.
BlobOf(vs) == Flatten([i \in 1..Len(vs) |-> BigEndianBytes(BYTES_PER_FIELD_ELEMENT, vs[i])])

\* Inputs a caller draws from: three canonical blobs (the challenge of the third
\* is a domain point) and one with an element equal to the modulus.
TauSamples == {3, 6}
CanonicalBlobSamples == {BlobOf(<<0, 0, 0, 0>>), BlobOf(<<1, 2, 0, 16>>), BlobOf(<<0, 0, 2, 1>>)}
BlobSamples == CanonicalBlobSamples \cup {BlobOf(<<1, BLS_MODULUS, 0, 16>>)}
\* A valid point, a curve point outside the subgroup, a string that is no point.
Bytes48Samples == {BigEndianBytes(BYTES_PER_COMMITMENT, 1),
                   BigEndianBytes(BYTES_PER_COMMITMENT, BLS_MODULUS),
                   BigEndianBytes(BYTES_PER_COMMITMENT, BLS_MODULUS + NotInSubgroup)}
\* A domain point, a point outside the domain, a non-canonical value.
ZSamples == {bytes_from_bls_field(BLS_MODULUS - 1), bytes_from_bls_field(3),
             bytes_from_bls_field(BLS_MODULUS)}
YSamples == {bytes_from_bls_field(0), bytes_from_bls_field(BLS_MODULUS + 1)}
FailCodes == {"C_KZG_BADARGS", "C_KZG_ERROR"}

NoCall == [op |-> "none"]

Init ==
    /\ settings \in {KZGSettings(tau) : tau \in TauSamples}
    /\ blobs = <<>>
    /\ commitments = <<>>
    /\ proofs = <<>>
    /\ tampers = 0
    /\ last = NoCall
    /\ NoSetupActivity

\* generate_random_blob, and `blobs.push(..)`
GenerateBlob(b) ==
    /\ last = NoCall
    /\ Len(blobs) < MaxBlobs
    /\ commitments = <<>> /\ proofs = <<>> /\ tampers = 0
    /\ blobs' = Append(blobs, b)
    /\ last' = NoCall
    /\ UNCHANGED <<settings, commitments, proofs, tampers>>
    /\ UNCHANGED <<setupVars, cacheVars>>

\* The caller changes what it holds once it has a commitment for every blob.
CanTamper ==
    /\ last = NoCall
    /\ tampers < MaxTampers
    /\ Len(commitments) = Len(blobs)

\* `blobs.pop()`
PopBlob ==
    /\ CanTamper
    /\ blobs # <<>>
    /\ blobs' = SubSeq(blobs, 1, Len(blobs) - 1)
    /\ tampers' = tampers + 1
    /\ last' = NoCall
    /\ UNCHANGED <<settings, commitments, proofs>>
    /\ UNCHANGED <<setupVars, cacheVars>>

\* The caller replaces a blob, a commitment or a proof it holds.
ReplaceBlob(i, b) ==
    /\ CanTamper
    /\ i \in DOMAIN blobs
    /\ blobs[i] # b
    /\ blobs' = [blobs EXCEPT ![i] = b]
    /\ tampers' = tampers + 1
    /\ last' = NoCall
    /\ UNCHANGED <<settings, commitments, proofs>>
    /\ UNCHANGED <<setupVars, cacheVars>>

ReplaceCommitment(i, c) ==
    /\ CanTamper
    /\ i \in DOMAIN commitments
    /\ commitments[i] # c
    /\ commitments' = [commitments EXCEPT ![i] = c]
    /\ tampers' = tampers + 1
    /\ last' = NoCall
    /\ UNCHANGED <<settings, blobs, proofs>>
    /\ UNCHANGED <<setupVars, cacheVars>>

ReplaceProof(i, p) ==
    /\ CanTamper
    /\ i \in DOMAIN proofs
    /\ proofs[i] # p
    /\ proofs' = [proofs EXCEPT ![i] = p]
    /\ tampers' = tampers + 1
    /\ last' = NoCall
    /\ UNCHANGED <<settings, blobs, commitments>>
    /\ UNCHANGED <<setupVars, cacheVars>>

\* A commitment computed on scratch memory that a proof computation left
\* behind: once the caller holds a proof, the blob is read as zeros.
Commit_stale ==
    LET i == Len(commitments) + 1
        r == KZGCommitment_blob_to_kzg_commitment(
                 IF proofs = <<>> THEN blobs[i] ELSE BlobOf(<<0, 0, 0, 0>>), settings)
    IN  /\ last = NoCall
        /\ i \in DOMAIN blobs
        /\ commitments' = IF r.ok THEN Append(commitments, r.val) ELSE commitments
        /\ last' = [op |-> "blob_to_kzg_commitment", api |-> "mod", i |-> i, ret |-> r]
        /\ UNCHANGED <<settings, blobs, proofs, tampers>>
        /\ UNCHANGED <<setupVars, cacheVars>>

\* A commitment that leaves the Lagrange table of the setup bit-reversed once
\* more, as if the engine reordered it in place.
Commit_reordering ==
    LET i == Len(commitments) + 1
        r == KZGCommitment_blob_to_kzg_commitment(blobs[i], settings)
    IN  /\ last = NoCall
        /\ i \in DOMAIN blobs
        /\ commitments' = IF r.ok THEN Append(commitments, r.val) ELSE commitments
        /\ last' = [op |-> "blob_to_kzg_commitment", api |-> "mod", i |-> i, ret |-> r]
        /\ settings' = [settings EXCEPT !.g1_values_lagrange_brp =
                                            bit_reversal_permutation(@)]
        /\ UNCHANGED <<blobs, proofs, tampers>>
        /\ UNCHANGED <<setupVars, cacheVars>>

\* The commitment of the next blob; the caller keeps it when the call succeeds.
Commit ==
    LET i == Len(commitments) + 1
        r == KZGCommitment_blob_to_kzg_commitment(blobs[i], settings)
    IN  /\ last = NoCall
        /\ i \in DOMAIN blobs
        /\ commitments' = IF r.ok THEN Append(commitments, r.val) ELSE commitments
        /\ last' = [op |-> "blob_to_kzg_commitment", api |-> "mod", i |-> i, ret |-> r]
        /\ UNCHANGED <<settings, blobs, proofs, tampers>>
        /\ UNCHANGED <<setupVars, cacheVars>>

\* The legacy interface: the function returns a point and no status.
LegacyCommit(i) ==
    /\ last = NoCall
    /\ i \in DOMAIN blobs
    /\ last' = [op |-> "blob_to_kzg_commitment", api |-> "legacy", i |-> i,
                ret |-> Ok(bytes_from_g1(legacy_blob_to_kzg_commitment(blobs[i], settings)),
                           <<>>)]
    /\ UNCHANGED <<settings, blobs, commitments, proofs, tampers>>
    /\ UNCHANGED <<setupVars, cacheVars>>

\* The blob proof of the next blob against the commitment held for it.
Prove ==
    LET i == Len(proofs) + 1
        r == KZGProof_compute_blob_kzg_proof(blobs[i], commitments[i], settings)
    IN  /\ last = NoCall
        /\ i \in DOMAIN blobs
        /\ i \in DOMAIN commitments
        /\ proofs' = IF r.ok THEN Append(proofs, r.val) ELSE proofs
        /\ last' = [op |-> "compute_blob_kzg_proof", api |-> "mod", i |-> i, ret |-> r]
        /\ UNCHANGED <<settings, blobs, commitments, tampers>>
        /\ UNCHANGED <<setupVars, cacheVars>>

LibProve ==
    LET i == Len(proofs) + 1
        r == Lib_KZGProof_compute_blob_kzg_proof(blobs[i], settings)
    IN  /\ last = NoCall
        /\ i \in DOMAIN blobs
        /\ i \in DOMAIN commitments
        /\ proofs' = IF r.ok THEN Append(proofs, r.val) ELSE proofs
        /\ last' = [op |-> "compute_blob_kzg_proof", api |-> "lib", i |-> i, ret |-> r]
        /\ UNCHANGED <<settings, blobs, commitments, tampers>>
        /\ UNCHANGED <<setupVars, cacheVars>>

VerifyBlob(i) ==
    /\ last = NoCall
    /\ i \in DOMAIN blobs /\ i \in DOMAIN commitments /\ i \in DOMAIN proofs
    /\ last' = [op |-> "verify_blob_kzg_proof", api |-> "mod", i |-> i,
                ret |-> KZGProof_verify_blob_kzg_proof(
                            blobs[i], commitments[i], proofs[i], settings)]
    /\ UNCHANGED <<settings, blobs, commitments, proofs, tampers>>
    /\ UNCHANGED <<setupVars, cacheVars>>

LibVerifyBlob(i, fail) ==
    /\ last = NoCall
    /\ i \in DOMAIN blobs /\ i \in DOMAIN commitments /\ i \in DOMAIN proofs
    /\ last' = [op |-> "verify_blob_kzg_proof", api |-> "lib", i |-> i,
                ret |-> Lib_KZGProof_verify_blob_kzg_proof(
                            blobs[i], commitments[i], proofs[i], settings, fail)]
    /\ UNCHANGED <<settings, blobs, commitments, proofs, tampers>>
    /\ UNCHANGED <<setupVars, cacheVars>>

VerifyBatch ==
    /\ last = NoCall
    /\ last' = [op |-> "verify_blob_kzg_proof_batch", api |-> "mod",
                ret |-> KZGProof_verify_blob_kzg_proof_batch(
                            blobs, commitments, proofs, settings)]
    /\ UNCHANGED <<settings, blobs, commitments, proofs, tampers>>
    /\ UNCHANGED <<setupVars, cacheVars>>

LibVerifyBatch(fail) ==
    /\ last = NoCall
    /\ last' = [op |-> "verify_blob_kzg_proof_batch", api |-> "lib",
                ret |-> Lib_KZGProof_verify_blob_kzg_proof_batch(
                            blobs, commitments, proofs, settings, fail)]
    /\ UNCHANGED <<settings, blobs, commitments, proofs, tampers>>
    /\ UNCHANGED <<setupVars, cacheVars>>

\* A proof of the evaluation of blob i at z.
ComputeKzgProof(i, z) ==
    /\ last = NoCall
    /\ i \in DOMAIN blobs
    /\ last' = [op |-> "compute_kzg_proof", api |-> "mod", i |-> i, z |-> z,
                ret |-> KZGProof_compute_kzg_proof(blobs[i], z, settings)]
    /\ UNCHANGED <<settings, blobs, commitments, proofs, tampers>>
    /\ UNCHANGED <<setupVars, cacheVars>>

\* What a caller may pass as (proof, y) for blob i at z: the pair
\* compute_kzg_proof returned, or bytes of its own.
ProofAndY(i, z) ==
    LET r == KZGProof_compute_kzg_proof(blobs[i], z, settings)
    IN  (IF r.ok THEN {r.val} ELSE {})
        \cup {<<p, y>> : p \in Bytes48Samples, y \in YSamples}

VerifyKzgProof(i, z, py) ==
    /\ last = NoCall
    /\ i \in DOMAIN blobs /\ i \in DOMAIN commitments
    /\ last' = [op |-> "verify_kzg_proof", api |-> "mod", i |-> i,
                z |-> z, y |-> py[2], proof |-> py[1],
                ret |-> KZGProof_verify_kzg_proof(
                            commitments[i], z, py[2], py[1], settings)]
    /\ UNCHANGED <<settings, blobs, commitments, proofs, tampers>>
    /\ UNCHANGED <<setupVars, cacheVars>>

LibVerifyKzgProof(i, z, py, fail) ==
    /\ last = NoCall
    /\ i \in DOMAIN blobs /\ i \in DOMAIN commitments
    /\ last' = [op |-> "verify_kzg_proof", api |-> "lib", i |-> i,
                z |-> z, y |-> py[2], proof |-> py[1],
                ret |-> Lib_KZGProof_verify_kzg_proof(
                            commitments[i], z, py[2], py[1], settings, fail)]
    /\ UNCHANGED <<settings, blobs, commitments, proofs, tampers>>
    /\ UNCHANGED <<setupVars, cacheVars>>

\* The caller takes the result and the next call may start, unless the
\* process died in the call.
Return ==
    /\ last # NoCall
    /\ last.op # "abort"
    /\ last' = NoCall
    /\ UNCHANGED <<settings, blobs, commitments, proofs, tampers>>
    /\ UNCHANGED <<setupVars, cacheVars>>

Next ==
    \/ \E b \in BlobSamples : GenerateBlob(b)
    \/ PopBlob
    \/ \E i \in 1..MaxBlobs, b \in BlobSamples : ReplaceBlob(i, b)
    \/ \E i \in 1..MaxBlobs, c \in Bytes48Samples : ReplaceCommitment(i, c)
    \/ \E i \in 1..MaxBlobs, p \in Bytes48Samples : ReplaceProof(i, p)
    \/ Commit
    \/ \E i \in 1..MaxBlobs : LegacyCommit(i)
    \/ Prove
    \/ LibProve
    \/ \E i \in 1..MaxBlobs : VerifyBlob(i)
    \/ \E i \in 1..MaxBlobs, fail \in FailCodes : LibVerifyBlob(i, fail)
    \/ VerifyBatch
    \/ \E fail \in FailCodes : LibVerifyBatch(fail)
    \/ Return

Spec == Init /\ [][Next]_vars

\* The caller of the point operations: blobs and commitments as above, then
\* proofs of evaluations at chosen points and their verification.
NextPoint ==
    \/ \E b \in BlobSamples : GenerateBlob(b)
    \/ Commit
    \/ \E i \in DOMAIN blobs, z \in ZSamples : ComputeKzgProof(i, z)
    \/ \E i \in DOMAIN blobs, z \in ZSamples :
           \E py \in ProofAndY(i, z) : VerifyKzgProof(i, z, py)
    \/ \E i \in DOMAIN blobs, z \in ZSamples, fail \in FailCodes :
           \E py \in ProofAndY(i, z) : LibVerifyKzgProof(i, z, py, fail)
    \/ Return

SpecPoint == Init /\ [][NextPoint]_vars

(***************************************************************************)
(* Properties of the blob operations.                                      *)
(***************************************************************************)
CanonicalBlob(b) == blob_to_polynomial(b).ret = "C_KZG_OK"
CanonicalField(b) == bytes_to_bls_field(b).ret = "C_KZG_OK"
ValidG1(b) == validate_kzg_g1(b).ret = "C_KZG_OK"

IsBatchCall == last.op = "verify_blob_kzg_proof_batch"
EqualLengths == Len(blobs) = Len(commitments) /\ Len(blobs) = Len(proofs)

\* The caller holds, for blob i, the commitment blob_to_kzg_commitment returns
\* and the proof compute_blob_kzg_proof returns for that commitment.
HonestTuple(i) ==
    LET c == KZGCommitment_blob_to_kzg_commitment(blobs[i], settings)
    IN  /\ c.ok
        /\ commitments[i] = c.val
        /\ LET p == KZGProof_compute_blob_kzg_proof(blobs[i], c.val, settings)
           IN  p.ok /\ proofs[i] = p.val

\* C1: round trip. With c = blob_to_kzg_commitment(blob) and
\* p = compute_blob_kzg_proof(blob, c) for a canonical blob,
\* verify_blob_kzg_proof(blob, c, p) returns Ok(true), and so does
\* verify_blob_kzg_proof_batch over a list of such tuples.
C1_RoundTrip ==
    /\ (last.op = "verify_blob_kzg_proof" /\ last.api = "mod" /\ HonestTuple(last.i))
           => (last.ret.ok /\ last.ret.val = TRUE)
    /\ (IsBatchCall /\ last.api = "mod" /\ EqualLengths
            /\ \A i \in DOMAIN blobs : HonestTuple(i))
           => (last.ret.ok /\ last.ret.val = TRUE)

\* C1 witness: an honest tuple whose verification returned Ok(true).
C1_Witness ==
    /\ last.op = "verify_blob_kzg_proof" /\ last.api = "mod"
    /\ HonestTuple(last.i)
    /\ blobs[last.i] # BlobOf(<<0, 0, 0, 0>>)
    /\ last.ret.ok /\ last.ret.val = TRUE

\* C3: a batch call whose arrays differ in length returns a MismatchLength
\* error, whatever the arrays hold, and the library is not called.
C3_LengthMismatch ==
    (IsBatchCall /\ ~EqualLengths)
        => (~last.ret.ok /\ last.ret.err = "MismatchLength" /\ last.ret.ffi = <<>>)

\* C3 witness: as many commitments as blobs, fewer proofs, and the error.
C3_Witness ==
    /\ IsBatchCall /\ last.api = "mod"
    /\ Len(blobs) = Len(commitments) /\ Len(blobs) # Len(proofs)
    /\ ~last.ret.ok /\ last.ret.err = "MismatchLength"

\* The inputs of the last verification call decode: canonical field elements
\* and points of the subgroup.
WellFormedTuple(i) ==
    CanonicalBlob(blobs[i]) /\ ValidG1(commitments[i]) /\ ValidG1(proofs[i])

WellFormedCall ==
    CASE last.op = "verify_blob_kzg_proof" -> WellFormedTuple(last.i)
      [] last.op = "verify_blob_kzg_proof_batch" ->
             EqualLengths /\ \A i \in DOMAIN blobs : WellFormedTuple(i)
      [] last.op = "verify_kzg_proof" ->
             /\ ValidG1(commitments[last.i]) /\ ValidG1(last.proof)
             /\ CanonicalField(last.z) /\ CanonicalField(last.y)
      [] OTHER -> FALSE

IsVerifyCall ==
    last.op \in {"verify_kzg_proof", "verify_blob_kzg_proof", "verify_blob_kzg_proof_batch"}

\* verify_blob_kzg_proof returns true for every tuple the caller holds.
AllIndividuallyTrue ==
    \A i \in DOMAIN blobs :
        LET r == KZGProof_verify_blob_kzg_proof(blobs[i], commitments[i], proofs[i], settings)
        IN  r.ok /\ r.val = TRUE

\* The batch call reported that the batch verifies.
BatchTrue == last.ret.ok /\ (last.api = "mod" => last.ret.val = TRUE)

\* C2: batch consistency. Over N >= 1 well-formed tuples the batch verification
\* returns a boolean: true when every tuple verifies individually, and Ok(false),
\* not an error, when one does not (a tuple whose blob was replaced); for one
\* tuple the result is that of the individual verification.  (For N >= 2 the
\* converse rests on the Fiat-Shamir challenge and holds up to a collision, so
\* it is stated for N = 1, where it is exact.)
C2_BatchConsistency ==
    (IsBatchCall /\ EqualLengths /\ Len(blobs) >= 1
        /\ \A i \in DOMAIN blobs : WellFormedTuple(i))
        => /\ last.ret.ok
           /\ AllIndividuallyTrue => BatchTrue
           /\ (Len(blobs) = 1 /\ BatchTrue) => AllIndividuallyTrue

\* C4: a verification called with well-formed inputs returns a success value
\* (Ok(false) when the proof does not verify), never an error; an error is
\* returned only for malformed input.
C4_InvalidProofIsNotAnError ==
    IsVerifyCall => (WellFormedCall <=> last.ret.ok)

\* A field element of the last call's inputs is not canonical.
NonCanonicalInput ==
    CASE last.op \in {"blob_to_kzg_commitment", "compute_blob_kzg_proof",
                      "verify_blob_kzg_proof"} -> ~CanonicalBlob(blobs[last.i])
      [] last.op = "compute_kzg_proof" ->
             ~CanonicalBlob(blobs[last.i]) \/ ~CanonicalField(last.z)
      [] last.op = "verify_kzg_proof" ->
             ~CanonicalField(last.z) \/ ~CanonicalField(last.y)
      [] OTHER -> FALSE

\* C5: a call that receives a field element whose value is at least the modulus
\* returns a BadArgs error (no commitment, proof or boolean is produced from a
\* reduced value).
C5_NonCanonicalRejected ==
    NonCanonicalInput
        => (~last.ret.ok /\ last.ret.err = "CError" /\ last.ret.info = "C_KZG_BADARGS")

\* Some blob, commitment or proof of the batch does not decode.
MalformedTuple(i) == ~WellFormedTuple(i)

\* C9: a batch with equal-length arrays in which any blob, commitment or proof
\* is malformed returns an error and no boolean, wherever the element is.
C9_BatchAllOrNothing ==
    (IsBatchCall /\ EqualLengths /\ \E i \in DOMAIN blobs : MalformedTuple(i))
        => ~last.ret.ok

\* C9 witness: a batch of two whose first tuple is valid and whose second holds
\* a malformed element, rejected.
C9_Witness ==
    /\ IsBatchCall /\ last.api = "mod" /\ EqualLengths /\ Len(blobs) = 2
    /\ HonestTuple(1) /\ MalformedTuple(2)
    /\ ~last.ret.ok

\* C10: the batch verification of three empty arrays returns Ok(true).
C10_EmptyBatch ==
    (IsBatchCall /\ last.api = "mod"
        /\ blobs = <<>> /\ commitments = <<>> /\ proofs = <<>>)
        => (last.ret.ok /\ last.ret.val = TRUE)

\* C10 witness: the call on empty arrays was made and the library was called.
C10_Witness ==
    /\ IsBatchCall /\ last.api = "mod"
    /\ blobs = <<>> /\ commitments = <<>> /\ proofs = <<>>
    /\ last.ret.ok /\ last.ret.ffi = <<"C_KZG_OK">>

(***************************************************************************)
(* Cells: the erasure-coding engine (the C library behind the bindings) on *)
(* the extended domain.  Polynomials in monomial form are sequences of     *)
(* coefficients, lowest degree first.                                      *)
(***************************************************************************)
Cell == BytesOfLen(BYTES_PER_CELL)

poly_eval(coeffs, x) ==
    fr_sum([j \in 1..Len(coeffs) |-> fr_mul(coeffs[j], fr_pow(x, j - 1))])

\* The coefficients of the polynomial of degree < Len(domain) that takes the
\* values evals on the domain (a complete set of roots of unity, any order).
fr_ifft(evals, domain) ==
    [j \in 1..Len(domain) |->
        fr_mul(fr_inv(Len(domain) % BLS_MODULUS),
               fr_sum([i \in 1..Len(domain) |->
                          fr_mul(evals[i], fr_pow(fr_inv(domain[i]), j - 1))]))]

\* The evaluations of a polynomial on a domain.
fr_fft(coeffs, domain) == [i \in 1..Len(domain) |-> poly_eval(coeffs, domain[i])]

poly_lagrange_to_monomial(lagrange) ==
    fr_ifft(lagrange, [i \in 1..FIELD_ELEMENTS_PER_BLOB |-> BlobDomain(i)])

poly_mul(a, b) ==
    [k \in 1..(Len(a) + Len(b) - 1) |->
        fr_sum([i \in 1..Len(a) |->
                   IF k - i + 1 \in 1..Len(b) THEN fr_mul(a[i], b[k - i + 1]) ELSE 0])]

\* The quotient of a by b (b's leading coefficient is not zero).
RECURSIVE poly_long_div(_, _)
poly_long_div(a, b) ==
    IF Len(a) < Len(b) THEN <<>>
    ELSE LET d == Len(a) - Len(b)
             c == fr_div(a[Len(a)], b[Len(b)])
             rest == [i \in 1..(Len(a) - 1) |->
                         IF i > d THEN fr_sub(a[i], fr_mul(c, b[i - d])) ELSE a[i]]
         IN  poly_long_div(rest, b) \o <<c>>

\* The first FIELD_ELEMENTS_PER_BLOB coefficients, zero where there is none.
TruncatePoly(coeffs) ==
    [j \in 1..FIELD_ELEMENTS_PER_BLOB |-> IF j <= Len(coeffs) THEN coeffs[j] ELSE 0]

\* The extended-domain points of cell k (from 0): a coset of the subgroup of
\* order FIELD_ELEMENTS_PER_CELL.
CellDomain(k) ==
    [e \in 1..FIELD_ELEMENTS_PER_CELL |->
        brp_roots_of_unity[k * FIELD_ELEMENTS_PER_CELL + e]]

\* The monic polynomial that vanishes on the coset of cell k.
coset_vanishing_poly(k) ==
    [j \in 1..(FIELD_ELEMENTS_PER_CELL + 1) |->
        IF j = 1 THEN fr_sub(0, fr_pow(CellDomain(k)[1], FIELD_ELEMENTS_PER_CELL))
        ELSE IF j = FIELD_ELEMENTS_PER_CELL + 1 THEN 1 ELSE 0]

\* The polynomial that vanishes on every cell of the set.
RECURSIVE vanishing_poly(_)
vanishing_poly(missing) ==
    IF missing = {} THEN <<1>>
    ELSE LET k == CHOOSE k \in missing : TRUE
         IN  poly_mul(coset_vanishing_poly(k), vanishing_poly(missing \ {k}))

\* The extended evaluations, cut into cells.
compute_cells_impl(poly_monomial) ==
    [k \in 1..CELLS_PER_EXT_BLOB |-> fr_fft(poly_monomial, CellDomain(k - 1))]

\* One proof per cell: the commitment to the quotient by the cell's vanishing
\* polynomial.
compute_fk20_cell_proofs(poly_monomial, s) ==
    [k \in 1..CELLS_PER_EXT_BLOB |->
        LET q == poly_long_div(poly_monomial, coset_vanishing_poly(k - 1))
        IN  g1_lincomb(s.g1_values_monomial, q)]

cells_to_bytes(cells_fr) ==
    [k \in 1..Len(cells_fr) |->
        Flatten([e \in 1..FIELD_ELEMENTS_PER_CELL |-> bytes_from_bls_field(cells_fr[k][e])])]

proofs_to_bytes(proofs_g1) == [k \in 1..Len(proofs_g1) |-> bytes_from_g1(proofs_g1[k])]

CellsAndProofs(poly_monomial, s) ==
    <<cells_to_bytes(compute_cells_impl(poly_monomial)),
      proofs_to_bytes(compute_fk20_cell_proofs(poly_monomial, s))>>

c_compute_cells_and_kzg_proofs(blob, s) ==
    LET poly == blob_to_polynomial(blob)
    IN  IF poly.ret # "C_KZG_OK" THEN CFail(poly.ret)
        ELSE CRet("C_KZG_OK", CellsAndProofs(poly_lagrange_to_monomial(poly.out), s))

\* Every element of a cell is range-checked.
cell_to_fr(cell) ==
    IF \E e \in 1..FIELD_ELEMENTS_PER_CELL :
            bytes_to_bls_field(ElementBytes(cell, e)).ret # "C_KZG_OK"
    THEN CFail("C_KZG_BADARGS")
    ELSE CRet("C_KZG_OK",
              [e \in 1..FIELD_ELEMENTS_PER_CELL |->
                  bytes_to_bls_field(ElementBytes(cell, e)).out])

\* Mutant: the known values are interpolated without the vanishing polynomial.
recover_cells_unscaled(cell_indices, cells_fr) ==
    LET present == Range(cell_indices)
        at(k) == CHOOSE j \in 1..Len(cell_indices) : cell_indices[j] = k
        E == [i \in 1..FIELD_ELEMENTS_PER_EXT_BLOB |->
                 LET k == (i - 1) \div FIELD_ELEMENTS_PER_CELL
                     e == ((i - 1) % FIELD_ELEMENTS_PER_CELL) + 1
                 IN  IF k \in present THEN cells_fr[at(k)][e] ELSE 0]
    IN  TruncatePoly(fr_ifft(E, brp_roots_of_unity))

\* The polynomial through the cells present: E = Z * p is known on the whole
\* extended domain (zero where the cell is missing), and p = E / Z.
recover_cells(cell_indices, cells_fr) ==
    LET present == Range(cell_indices)
        Z == vanishing_poly((0..(CELLS_PER_EXT_BLOB - 1)) \ present)
        at(k) == CHOOSE j \in 1..Len(cell_indices) : cell_indices[j] = k
        E == [i \in 1..FIELD_ELEMENTS_PER_EXT_BLOB |->
                 LET k == (i - 1) \div FIELD_ELEMENTS_PER_CELL
                     e == ((i - 1) % FIELD_ELEMENTS_PER_CELL) + 1
                 IN  IF k \in present
                     THEN fr_mul(poly_eval(Z, brp_roots_of_unity[i]), cells_fr[at(k)][e])
                     ELSE 0]
    IN  TruncatePoly(poly_long_div(fr_ifft(E, brp_roots_of_unity), Z))

\* Mutant: no lower bound on the number of cells.
c_recover_cells_and_kzg_proofs_any(cell_indices, cells, num_cells, s) ==
    IF num_cells > CELLS_PER_EXT_BLOB THEN CFail("C_KZG_BADARGS")
    ELSE IF \E j \in 1..num_cells : cell_indices[j] >= CELLS_PER_EXT_BLOB
    THEN CFail("C_KZG_BADARGS")
    ELSE IF \E j \in 1..num_cells : cell_to_fr(cells[j]).ret # "C_KZG_OK"
    THEN CFail("C_KZG_BADARGS")
    ELSE IF \E j, k \in 1..num_cells : j # k /\ cell_indices[j] = cell_indices[k]
    THEN CFail("C_KZG_BADARGS")
    ELSE CRet("C_KZG_OK",
              CellsAndProofs(
                  recover_cells(SubSeq(cell_indices, 1, num_cells),
                                [j \in 1..num_cells |-> cell_to_fr(cells[j]).out]),
                  s))

\* Mutant: a repeated index is not looked for.
c_recover_cells_and_kzg_proofs_dup(cell_indices, cells, num_cells, s) ==
    IF num_cells > CELLS_PER_EXT_BLOB THEN CFail("C_KZG_BADARGS")
    ELSE IF num_cells < CELLS_PER_EXT_BLOB \div 2 THEN CFail("C_KZG_BADARGS")
    ELSE IF \E j \in 1..num_cells : cell_indices[j] >= CELLS_PER_EXT_BLOB
    THEN CFail("C_KZG_BADARGS")
    ELSE IF \E j \in 1..num_cells : cell_to_fr(cells[j]).ret # "C_KZG_OK"
    THEN CFail("C_KZG_BADARGS")
    ELSE CRet("C_KZG_OK",
              CellsAndProofs(
                  recover_cells(SubSeq(cell_indices, 1, num_cells),
                                [j \in 1..num_cells |-> cell_to_fr(cells[j]).out]),
                  s))

\* The argument checks, in order: too many cells, too few cells, an index out
\* of range, a cell that is not canonical, a repeated index.
c_recover_cells_and_kzg_proofs(cell_indices, cells, num_cells, s) ==
    IF num_cells > CELLS_PER_EXT_BLOB THEN CFail("C_KZG_BADARGS")
    ELSE IF num_cells < CELLS_PER_EXT_BLOB \div 2 THEN CFail("C_KZG_BADARGS")
    ELSE IF \E j \in 1..num_cells : cell_indices[j] >= CELLS_PER_EXT_BLOB
    THEN CFail("C_KZG_BADARGS")
    ELSE IF \E j \in 1..num_cells : cell_to_fr(cells[j]).ret # "C_KZG_OK"
    THEN CFail("C_KZG_BADARGS")
    ELSE IF \E j, k \in 1..num_cells : j # k /\ cell_indices[j] = cell_indices[k]
    THEN CFail("C_KZG_BADARGS")
    ELSE CRet("C_KZG_OK",
              CellsAndProofs(
                  recover_cells(SubSeq(cell_indices, 1, num_cells),
                                [j \in 1..num_cells |-> cell_to_fr(cells[j]).out]),
                  s))

\* The safe wrappers over the two calls.
KzgSettings_compute_cells_and_kzg_proofs(blob, s) ==
    FromC(c_compute_cells_and_kzg_proofs(blob, s))

KzgSettings_recover_cells_and_kzg_proofs(cell_indices, cells, s) ==
    IF Len(cell_indices) # Len(cells)
    THEN Err("MismatchLength",
             <<"cell_indices", Len(cell_indices), "cells", Len(cells)>>, <<>>)
    ELSE FromC(c_recover_cells_and_kzg_proofs(cell_indices, cells, Len(cells), s))

(***************************************************************************)
(* The caller of the cell operations: it computes the cells and proofs of  *)
(* a blob, then asks for recovery from a list of indices and the computed  *)
(* cells at those indices.                                                 *)
(***************************************************************************)
MaxCellIndices == 4

CellBlobSamples ==
    BlobSamples \cup {BlobOf(<<16, 16, 16, 16>>), BlobOf(<<3, 0, 0, 0>>),
                      BlobOf(<<5, 11, 7, 2>>)}

\* Index lists, in any order, with repeats and with the first index past the
\* last cell.
CellIndexSamples ==
    UNION {[1..n -> 0..CELLS_PER_EXT_BLOB] : n \in 0..MaxCellIndices}

InitCells ==
    /\ settings \in {KZGSettings(tau) : tau \in TauSamples}
    /\ blobs \in {<<b>> : b \in CellBlobSamples}
    /\ commitments = <<>>
    /\ proofs = <<>>
    /\ tampers = 0
    /\ last = NoCall
    /\ NoSetupActivity

ComputeCells ==
    /\ last = NoCall
    /\ last' = [op |-> "compute_cells_and_kzg_proofs", api |-> "mod", i |-> 1,
                ret |-> KzgSettings_compute_cells_and_kzg_proofs(blobs[1], settings)]
    /\ UNCHANGED <<settings, blobs, commitments, proofs, tampers>>
    /\ UNCHANGED <<setupVars, cacheVars>>

\* The cells handed over with the indices: the computed cell of each index (the
\* first cell where the index names none), n of them.
SuppliedCells(computed_cells, cell_indices, n) ==
    [j \in 1..n |->
        IF j <= Len(cell_indices) /\ cell_indices[j] < CELLS_PER_EXT_BLOB
        THEN computed_cells[cell_indices[j] + 1]
        ELSE computed_cells[1]]

\* The cells and proofs of the blob have just been computed.
HasComputedCells ==
    /\ last # NoCall
    /\ last.op = "compute_cells_and_kzg_proofs"
    /\ last.ret.ok

RecoverCells(cell_indices, n) ==
    /\ HasComputedCells
    /\ LET cells == SuppliedCells(last.ret.val[1], cell_indices, n)
       IN  last' = [op |-> "recover_cells_and_kzg_proofs", api |-> "mod", i |-> 1,
                    cell_indices |-> cell_indices, cells |-> cells,
                    computed |-> last.ret.val,
                    ret |-> KzgSettings_recover_cells_and_kzg_proofs(
                                cell_indices, cells, settings)]
    /\ UNCHANGED <<settings, blobs, commitments, proofs, tampers>>
    /\ UNCHANGED <<setupVars, cacheVars>>

NextCells ==
    \/ ComputeCells
    \/ HasComputedCells /\ \E cell_indices \in CellIndexSamples :
           \E n \in {Len(cell_indices), Len(cell_indices) + 1} \cup
                    (IF cell_indices = <<>> THEN {} ELSE {Len(cell_indices) - 1}) :
               RecoverCells(cell_indices, n)
    \/ Return

SpecCells == InitCells /\ [][NextCells]_vars

(***************************************************************************)
(* All operations on one setup: the blob pipeline, the point operations    *)
(* before the caller collects proofs of blobs and, while it holds one blob *)
(* and nothing else, the cell operations on that blob.                     *)
(***************************************************************************)
CellsFirst ==
    /\ Len(blobs) = 1
    /\ commitments = <<>> /\ proofs = <<>> /\ tampers = 0

\* No proof of a blob was collected and no input replaced yet.
PointsFirst == proofs = <<>> /\ tampers = 0

NextOps ==
    \/ Next
    \/ PointsFirst /\ NextPoint
    \/ CellsFirst /\ NextCells

SpecOps == Init /\ [][NextOps]_vars

IsLoadedSetup == \E tau \in TauSamples : settings = KZGSettings(tau)

IsCommitCall ==
    last # NoCall /\ last.op = "blob_to_kzg_commitment" /\ last.api = "mod"

ArgumentNames == {"blobs", "commitments", "proofs", "cell_indices", "cells"}

NamesArgument(e) ==
    CASE e.err = "MismatchLength" ->
             /\ e.info[1] \in ArgumentNames /\ e.info[3] \in ArgumentNames
             /\ e.info[2] \in Nat /\ e.info[4] \in Nat
      [] e.err = "CError" -> FALSE
      [] OTHER -> FALSE

\* C20: every error of an operation tells which argument was rejected, and a
\* length error gives the expected and the actual length.
C20_ErrorsCarryContext ==
    (last # NoCall /\ ~last.ret.ok) => NamesArgument(last.ret)

IsComputeKzgProof ==
    last # NoCall /\ last.op = "compute_kzg_proof" /\ last.api = "mod"

\* The value at z of the polynomial that interpolates the blob over the domain,
\* from its coefficients.
InterpolatedAt(blob, z_bytes) ==
    poly_eval(poly_lagrange_to_monomial(blob_to_polynomial(blob).out),
              BigEndianValue(z_bytes))

\* The caller passes to verify_kzg_proof the commitment of the blob and the
\* pair compute_kzg_proof returns for the blob and z.
VerifiesComputedPair ==
    /\ last # NoCall /\ last.op = "verify_kzg_proof" /\ last.api = "mod"
    /\ LET c == KZGCommitment_blob_to_kzg_commitment(blobs[last.i], settings)
           r == KZGProof_compute_kzg_proof(blobs[last.i], last.z, settings)
       IN  /\ c.ok /\ commitments[last.i] = c.val
           /\ r.ok /\ <<last.proof, last.y>> = r.val

\* C21: compute_kzg_proof on a canonical blob and a canonical z succeeds and
\* returns y = p(z) for the polynomial p interpolating the blob; at a point of
\* the domain y is the blob element stored there; and verify_kzg_proof accepts
\* the returned pair against the commitment of the blob.
C21_ProofAtPoint ==
    /\ (IsComputeKzgProof /\ CanonicalBlob(blobs[last.i]) /\ CanonicalField(last.z))
           => /\ last.ret.ok
              /\ last.ret.val[2] = bytes_from_bls_field(InterpolatedAt(blobs[last.i], last.z))
              /\ \A m \in 1..FIELD_ELEMENTS_PER_BLOB :
                     BlobDomain(m) = BigEndianValue(last.z)
                         => last.ret.val[2] = ElementBytes(blobs[last.i], m)
    /\ VerifiesComputedPair => (last.ret.ok /\ last.ret.val = TRUE)

\* C21 witness: a proof at the second point of the domain for a blob whose
\* second element is 2.
C21_Witness ==
    /\ IsComputeKzgProof
    /\ blobs[last.i] = BlobOf(<<1, 2, 0, 16>>)
    /\ last.z = bytes_from_bls_field(BlobDomain(2))
    /\ last.ret.ok /\ last.ret.val[2] = bytes_from_bls_field(2)

\* The six wrapped operations of bindings/mod.rs.
WrappedOps ==
    {"blob_to_kzg_commitment", "compute_kzg_proof", "compute_blob_kzg_proof",
     "verify_kzg_proof", "verify_blob_kzg_proof", "verify_blob_kzg_proof_batch"}

IsWrappedCall ==
    /\ last # NoCall /\ last.op \in WrappedOps /\ last.api = "mod"
    /\ last.ret.ffi # <<>>

\* C23: a wrapper that called the library returns Ok(output) only when the
\* return code was C_KZG_OK, and for any other code r it returns CError(r).
C23_OutputOnlyOnOk ==
    IsWrappedCall =>
        /\ Len(last.ret.ffi) = 1
        /\ last.ret.ok <=> (last.ret.ffi[1] = "C_KZG_OK")
        /\ ~last.ret.ok => (last.ret.err = "CError" /\ last.ret.info = last.ret.ffi[1])

\* C23 witness: verify_kzg_proof on a y that is no field element is answered
\* with the library's C_KZG_BADARGS.
C23_Witness ==
    /\ IsWrappedCall /\ last.op = "verify_kzg_proof"
    /\ ~CanonicalField(last.y)
    /\ ~last.ret.ok /\ last.ret.info = "C_KZG_BADARGS"

(***************************************************************************)
(* Properties of the cell operations.                                      *)
(***************************************************************************)
IsRecoverCall == last.op = "recover_cells_and_kzg_proofs"

DistinctIndices(cell_indices) ==
    \A j, k \in 1..Len(cell_indices) : j # k => cell_indices[j] # cell_indices[k]

IndicesInRange(cell_indices) ==
    \A j \in 1..Len(cell_indices) : cell_indices[j] < CELLS_PER_EXT_BLOB

\* Each supplied cell is the cell compute_cells_and_kzg_proofs produced at the
\* index it is supplied for.
CellsOfIndices ==
    /\ Len(last.cells) = Len(last.cell_indices)
    /\ IndicesInRange(last.cell_indices)
    /\ \A j \in 1..Len(last.cell_indices) :
           last.cells[j] = last.computed[1][last.cell_indices[j] + 1]

\* C6: cell round trip. For a valid blob with (cells, proofs) =
\* compute_cells_and_kzg_proofs(blob), recovery from any list of distinct
\* indices, at least CELLS_PER_EXT_BLOB / 2 of them, and the computed cells at
\* those indices returns exactly the computed cells and the computed proofs.
C6_CellRoundTrip ==
    (IsRecoverCall
        /\ IndicesInRange(last.cell_indices) /\ DistinctIndices(last.cell_indices)
        /\ Len(last.cell_indices) >= CELLS_PER_EXT_BLOB \div 2
        /\ CellsOfIndices)
        => (last.ret.ok /\ last.ret.val = last.computed)

\* C6 witness: recovery of a non-zero blob from exactly the threshold number of
\* cells, none of them a cell of the original data, returned the computed output.
C6_Witness ==
    /\ IsRecoverCall
    /\ Len(last.cell_indices) = CELLS_PER_EXT_BLOB \div 2
    /\ \A j \in 1..Len(last.cell_indices) :
           last.cell_indices[j] >= CELLS_PER_EXT_BLOB \div 2
    /\ CellsOfIndices
    /\ blobs[1] # BlobOf(<<0, 0, 0, 0>>)
    /\ last.ret.ok /\ last.ret.val = last.computed

\* C7: recovery called with fewer than CELLS_PER_EXT_BLOB / 2 distinct cell
\* indices fails, and returns no cells and no proofs, even when every supplied
\* cell is correct: with the library's BadArgs code when one cell is supplied
\* per index, with an argument error in any case.
C7_RecoveryThreshold ==
    (IsRecoverCall
        /\ Cardinality(Range(last.cell_indices)) < CELLS_PER_EXT_BLOB \div 2)
        => /\ ~last.ret.ok
           /\ \/ last.ret.err = "CError" /\ last.ret.info = "C_KZG_BADARGS"
              \/ last.ret.err = "MismatchLength"
           /\ Len(last.cells) = Len(last.cell_indices)
                  => (last.ret.err = "CError" /\ last.ret.info = "C_KZG_BADARGS")

\* C7 witness: one in-range index with its correct cell, refused with BadArgs.
C7_Witness ==
    /\ IsRecoverCall
    /\ Len(last.cell_indices) = 1
    /\ IndicesInRange(last.cell_indices)
    /\ CellsOfIndices
    /\ ~last.ret.ok /\ last.ret.info = "C_KZG_BADARGS"

\* C8: recovery returns an error and no output when the indices hold a
\* duplicate, hold an index >= CELLS_PER_EXT_BLOB, or are not as many as the
\* cells, also when the other indices alone reach the threshold.
C8_BadIndices ==
    (IsRecoverCall
        /\ \/ ~DistinctIndices(last.cell_indices)
           \/ ~IndicesInRange(last.cell_indices)
           \/ Len(last.cell_indices) # Len(last.cells))
        => ~last.ret.ok

\* C8 witness: a repeated index among indices whose distinct values reach the
\* threshold, one cell per index, refused.
C8_Witness ==
    /\ IsRecoverCall
    /\ ~DistinctIndices(last.cell_indices)
    /\ IndicesInRange(last.cell_indices)
    /\ Cardinality(Range(last.cell_indices)) >= CELLS_PER_EXT_BLOB \div 2
    /\ Len(last.cell_indices) = Len(last.cells)
    /\ ~last.ret.ok


(***************************************************************************)
(* Loading and releasing a setup.  The C loader allocates the tables of a  *)
(* setup and free_trusted_setup releases them; a Rust KZGSettings value    *)
(* holds the pointers.  `heap[a].frees` counts the calls of                *)
(* free_trusted_setup on allocation a, `handles[h]` is a KZGSettings value *)
(* with the allocation it points to and the number of its owners (one for  *)
(* a plain value, the strong count when it sits in an Arc, zero once it    *)
(* was dropped).                                                           *)
(***************************************************************************)
MaxHandles == 3
MaxOwners == 2
MaxLoads == 3

G1CountSamples == {FIELD_ELEMENTS_PER_BLOB - 1, FIELD_ELEMENTS_PER_BLOB}
G2CountSamples == {NUM_G2_POINTS, NUM_G2_POINTS + 1}
\* What the C loader may answer for point tables of the right size.
LoadCodes == {"C_KZG_OK", "C_KZG_BADARGS", "C_KZG_MALLOC"}
Apis == {"lib", "mod"}

\* load_trusted_setup without the check of the number of G2 points.
KZGSettings_load_trusted_setup_g1_only(g1_len, g2_len, res) ==
    IF g1_len # FIELD_ELEMENTS_PER_BLOB
    THEN Err("InvalidTrustedSetup",
             <<"g1 points", FIELD_ELEMENTS_PER_BLOB, g1_len>>, <<>>)
    ELSE IF res = "C_KZG_OK" THEN Ok("settings", <<res>>)
    ELSE Err("InvalidTrustedSetup", <<"Invalid trusted setup", res>>, <<res>>)

\* KZGSettings::load_trusted_setup; `res` is the answer of the C loader, taken
\* only when the loader is called (then it is the one entry of `ffi`).
KZGSettings_load_trusted_setup(g1_len, g2_len, res) ==
    IF g1_len # FIELD_ELEMENTS_PER_BLOB
    THEN Err("InvalidTrustedSetup",
             <<"g1 points", FIELD_ELEMENTS_PER_BLOB, g1_len>>, <<>>)
    ELSE IF g2_len # NUM_G2_POINTS
    THEN Err("InvalidTrustedSetup",
             <<"g2 points", NUM_G2_POINTS, g2_len>>, <<>>)
    ELSE IF res = "C_KZG_OK" THEN Ok("settings", <<res>>)
    ELSE Err("InvalidTrustedSetup", <<"Invalid trusted setup", res>>, <<res>>)

\* The paths a caller may pass: one with an interior NUL, one that names no
\* file that can be opened, and one that names a readable file.
PathSamples == {"interior_nul", "unopenable", "readable"}

\* libc fopen(path, "r"): a stream for a file that can be read, NULL otherwise.
fopen(path) == IF path = "readable" THEN "stream" ELSE "NULL"

\* What the C loader may answer for the stream it is handed.  It reads the
\* points with fscanf; reading through a NULL stream is undefined, and either
\* faults (the process is gone) or is reported as a failed read.
load_trusted_setup_file(file_ptr) ==
    IF file_ptr = "NULL" THEN {"abort", "C_KZG_BADARGS"} ELSE LoadCodes

\* KZGSettings::load_trusted_setup_file; a path with an interior NUL fails in
\* CString::new, any other path is opened and what fopen returned is handed to
\* the C loader, whose answer is `res`.
KZGSettings_load_trusted_setup_file(path, res) ==
    IF path = "interior_nul"
    THEN Err("InvalidTrustedSetup", <<"Invalid trusted setup file">>, <<>>)
    ELSE IF res = "C_KZG_OK" THEN Ok("settings", <<res>>)
    ELSE Err("InvalidTrustedSetup", <<"Invalid trusted setup", res>>, <<res>>)

\* What a load leaves behind: the loader calls it made, and for Ok(..) a new
\* allocation owned by a new KZGSettings value.
Loaded(api, call, ret) ==
    /\ loader_calls' = loader_calls + Len(ret.ffi)
    /\ IF ret.ok
       THEN /\ heap' = Append(heap, [frees |-> 0])
            /\ handles' = Append(handles, [alloc |-> Len(heap) + 1, api |-> api,
                                           owners |-> 1])
       ELSE UNCHANGED <<heap, handles>>
    /\ last' = [call EXCEPT !.ret = ret]
    /\ UNCHANGED <<settings, blobs, commitments, proofs, tampers, cacheVars>>

CanLoad ==
    /\ last = NoCall
    /\ Len(handles) < MaxHandles
    /\ loader_calls < MaxLoads

LoadTrustedSetup(api, g1_len, g2_len, res) ==
    /\ CanLoad
    /\ Loaded(api,
              [op |-> "load_trusted_setup", api |-> api, g1_len |-> g1_len,
               g2_len |-> g2_len, heap |-> Len(heap), handles |-> Len(handles),
               ret |-> NoCall],
              KZGSettings_load_trusted_setup(g1_len, g2_len, res))
    /\ UNCHANGED <<open_files, level_loads, zkvm>>

\* The stream stays open: neither the wrapper nor the loader calls fclose.
LoadTrustedSetupFile(api, path, res) ==
    /\ CanLoad
    /\ LET file_ptr == IF path = "interior_nul" THEN "unopened" ELSE fopen(path)
           call == [op |-> "load_trusted_setup_file", api |-> api, path |-> path,
                    file_ptr |-> file_ptr, heap |-> Len(heap),
                    handles |-> Len(handles), ret |-> NoCall]
       IN  /\ path # "interior_nul" => res \in load_trusted_setup_file(file_ptr)
           /\ open_files' = open_files + (IF file_ptr = "stream" THEN 1 ELSE 0)
           /\ UNCHANGED <<level_loads, zkvm>>
           /\ IF path # "interior_nul" /\ res = "abort"
              THEN /\ last' = [call EXCEPT !.op = "abort"]
                   /\ loader_calls' = loader_calls + 1
                   /\ UNCHANGED <<heap, handles>>
                   /\ UNCHANGED <<settings, blobs, commitments, proofs, tampers,
                                  cacheVars>>
              ELSE Loaded(api, call, KZGSettings_load_trusted_setup_file(path, res))

Owned(h) == h \in 1..Len(handles) /\ handles[h].owners > 0

\* `#[derive(Clone)]` on the KZGSettings of bindings.rs: the clone is a second
\* value holding the same three pointers.  The KZGSettings of generated.rs
\* derives no Clone.
CloneSettings(h) ==
    /\ last = NoCall
    /\ Owned(h)
    /\ handles[h].api = "lib"
    /\ Len(handles) < MaxHandles
    /\ handles' = Append(handles, [handles[h] EXCEPT !.owners = 1])
    /\ last' = [op |-> "clone", api |-> "lib", h |-> h]
    /\ UNCHANGED <<heap, loader_calls, open_files, level_loads, zkvm>>
    /\ UNCHANGED <<settings, blobs, commitments, proofs, tampers, cacheVars>>

\* Arc::clone of a setup that is shared by reference count.
ShareSettings(h) ==
    /\ last = NoCall
    /\ Owned(h)
    /\ handles[h].owners < MaxOwners
    /\ handles' = [handles EXCEPT ![h].owners = @ + 1]
    /\ last' = [op |-> "share", api |-> handles[h].api, h |-> h]
    /\ UNCHANGED <<heap, loader_calls, open_files, level_loads, zkvm>>
    /\ UNCHANGED <<settings, blobs, commitments, proofs, tampers, cacheVars>>

\* An operation that takes `&KZGSettings`: it reads the tables the value points
\* to; `freed` tells whether they had been released.
UseSettings(h) ==
    /\ last = NoCall
    /\ Owned(h)
    /\ last' = [op |-> "use", api |-> handles[h].api, h |-> h,
                freed |-> heap[handles[h].alloc].frees > 0]
    /\ UNCHANGED setupVars
    /\ UNCHANGED <<settings, blobs, commitments, proofs, tampers, cacheVars>>

\* An owner goes out of scope; `impl Drop for KZGSettings` runs when it was the
\* last owner of the value and calls free_trusted_setup on what it points to.
DropSettings(h) ==
    /\ last = NoCall
    /\ Owned(h)
    /\ handles' = [handles EXCEPT ![h].owners = @ - 1]
    /\ heap' = IF handles[h].owners = 1
               THEN [heap EXCEPT ![handles[h].alloc].frees = @ + 1]
               ELSE heap
    /\ last' = [op |-> "drop", api |-> handles[h].api, h |-> h]
    /\ UNCHANGED <<loader_calls, open_files, level_loads, zkvm>>
    /\ UNCHANGED <<settings, blobs, commitments, proofs, tampers, cacheVars>>

NextSetup ==
    \/ \E api \in Apis, g1_len \in G1CountSamples, g2_len \in G2CountSamples,
          res \in LoadCodes :
           LoadTrustedSetup(api, g1_len, g2_len, res)
    \/ \E api \in Apis, path \in PathSamples, res \in LoadCodes \cup {"abort"} :
           LoadTrustedSetupFile(api, path, res)
    \/ \E h \in 1..MaxHandles : CloneSettings(h)
    \/ \E h \in 1..MaxHandles : ShareSettings(h)
    \/ \E h \in 1..MaxHandles : UseSettings(h)
    \/ \E h \in 1..MaxHandles : DropSettings(h)
    \/ Return

SpecSetup == Init /\ [][NextSetup]_vars

(***************************************************************************)
(* Properties of loading and releasing.                                    *)
(***************************************************************************)
OwnersOf(a) == {h \in 1..Len(handles) : handles[h].alloc = a /\ handles[h].owners > 0}

\* C11: free_trusted_setup runs exactly once on every loaded setup, when its
\* last owner is dropped, so no setup is freed twice and no operation reads a
\* setup that was freed.
C11_SetupLifetime ==
    /\ \A a \in 1..Len(heap) :
           /\ heap[a].frees <= 1
           /\ (heap[a].frees = 1) <=> (OwnersOf(a) = {})
    /\ (last # NoCall /\ last.op = "use") => ~last.freed

\* C11 for the KZGSettings of bindings/mod.rs and generated.rs, which cannot be
\* cloned: every allocation is owned by one value.
ModOnly == \A h \in 1..Len(handles) : handles[h].api = "mod"
C11_ModLifetime == ModOnly => C11_SetupLifetime

\* C11 witness: a setup shared by two owners was released by the drop of the
\* second one.
C11_ModWitness ==
    /\ last # NoCall /\ last.op = "drop" /\ last.api = "mod"
    /\ handles[last.h].owners = 0
    /\ heap[handles[last.h].alloc].frees = 1
    /\ ModOnly

IsLoadCall == last # NoCall /\ last.op = "load_trusted_setup"

\* C13: load_trusted_setup with a wrong number of G1 or G2 points returns
\* InvalidTrustedSetup; the C loader is not called and no setup is created.
C13_CountsChecked ==
    (IsLoadCall /\ (last.g1_len # FIELD_ELEMENTS_PER_BLOB \/ last.g2_len # NUM_G2_POINTS))
        => /\ ~last.ret.ok /\ last.ret.err = "InvalidTrustedSetup"
           /\ last.ret.ffi = <<>>
           /\ Len(heap) = last.heap /\ Len(handles) = last.handles

\* C13 witness: the right number of G1 points, one G2 point too many, after a
\* setup was loaded.
C13_Witness ==
    /\ IsLoadCall
    /\ last.g1_len = FIELD_ELEMENTS_PER_BLOB /\ last.g2_len # NUM_G2_POINTS
    /\ ~last.ret.ok /\ last.ret.err = "InvalidTrustedSetup"
    /\ loader_calls > 0

IsFileLoad == last.op \in {"load_trusted_setup_file", "abort"}
IsLoadAttempt == IsLoadCall \/ IsFileLoad
LoadFailed == IsLoadAttempt /\ (last.op = "abort" \/ ~last.ret.ok)

\* C22: a load that fails returns InvalidTrustedSetup to its caller, creates no
\* setup and leaves the allocations and KZGSettings values there were; a load
\* that the loader accepts, after a failed one or not, yields a new setup.
C22_FailedLoadIsLocal ==
    /\ LoadFailed => /\ last.op # "abort"
                     /\ last.ret.err = "InvalidTrustedSetup"
                     /\ Len(heap) = last.heap /\ Len(handles) = last.handles
    /\ (IsLoadAttempt /\ last.op # "abort" /\ last.ret.ffi = <<"C_KZG_OK">>)
           => (last.ret.ok /\ Len(handles) = last.handles + 1)

\* C24: load_trusted_setup_file with a path that cannot be opened returns
\* InvalidTrustedSetup and the C loader is not called with the NULL stream.
C24_NullNeverPassed ==
    (IsFileLoad /\ last.path = "unopenable")
        => /\ last.op = "load_trusted_setup_file"
           /\ ~last.ret.ok /\ last.ret.err = "InvalidTrustedSetup"
           /\ last.ret.ffi = <<>>

\* C25: no stream opened by load_trusted_setup_file is open once the call has
\* returned, whether the load succeeded or failed.
C25_FilesClosed == open_files = 0


(***************************************************************************)
(* The default settings: one OnceBox per precompute level, filled on the   *)
(* first call.  A thread is at one of the steps of                         *)
(* ethereum_kzg_settings_inner: the match on the level, the read of the    *)
(* slot, the closure that loads the setup, and the compare-and-exchange    *)
(* that stores the new box unless another thread stored one first.         *)
(***************************************************************************)
MaxThreads == 2
MaxCacheLoads == 2

PrecomputeSamples == {0, MAX_PRECOMPUTE, MAX_PRECOMPUTE + 1}
\* `ethereum_kzg_settings` hands out a reference, `.._arc` a clone of the Arc.
CacheApis == {"ref", "arc"}
\* The loader's answers on the built-in points.
CacheLoadCodes == {"C_KZG_OK", "C_KZG_MALLOC"}

IdleThread ==
    [pc |-> "idle", api |-> "none", precompute |-> 0, slot |-> [panic |-> TRUE],
     cand |-> 0, ret |-> 0]

InitCache ==
    /\ settings \in {KZGSettings(tau) : tau \in TauSamples}
    /\ blobs = <<>>
    /\ commitments = <<>>
    /\ proofs = <<>>
    /\ tampers = 0
    /\ last = NoCall
    /\ heap = <<>>
    /\ handles = <<>>
    /\ loader_calls = 0
    /\ open_files = 0
    /\ level_loads = [k \in 0..MAX_PRECOMPUTE |-> 0]
    /\ zkvm = NoZkvm
    /\ cache = [k \in 0..MAX_PRECOMPUTE |-> EmptySlot]
    /\ threads = [t \in 1..MaxThreads |-> IdleThread]

\* A match that sends every level above the highest one to the last slot.
cache_slot_clamped(precompute) ==
    IF precompute \in 0..MAX_PRECOMPUTE
    THEN [panic |-> FALSE, k |-> precompute]
    ELSE [panic |-> FALSE, k |-> MAX_PRECOMPUTE]

\* `match precompute { 0 => &CACHE_0, .., 15 => &CACHE_15, _ => panic!(..) }`
cache_slot(precompute) ==
    IF precompute \in 0..MAX_PRECOMPUTE
    THEN [panic |-> FALSE, k |-> precompute]
    ELSE [panic |-> TRUE]

\* A store that replaces whatever the slot holds.
once_box_store_last(slot, cand) ==
    [slot |-> [set |-> TRUE, inst |-> cand], won |-> TRUE]

\* The compare-and-exchange of OnceBox::get_or_init: the candidate is stored
\* when the slot is still empty; otherwise the slot stays and the candidate
\* loses.
once_box_store(slot, cand) ==
    IF slot.set
    THEN [slot |-> slot, won |-> FALSE]
    ELSE [slot |-> [set |-> TRUE, inst |-> cand], won |-> TRUE]

\* An owner of the Arc more (`n = 1`) or less (`n = -1`).
WithOwners(hs, h, n) == [hs EXCEPT ![h].owners = @ + n]

\* A Drop that releases nothing.
Released_leaked(hp, hs, h) == hp

\* The tables of a value without owners are released by its Drop.
Released(hp, hs, h) ==
    IF hs[h].owners = 0 THEN [hp EXCEPT ![hs[h].alloc].frees = @ + 1] ELSE hp

\* ethereum_kzg_settings(precompute) or ethereum_kzg_settings_arc(precompute)
\* is entered and the slot is selected.
CallSettings(t, api, precompute) ==
    /\ threads[t].pc = "idle"
    /\ LET slot == cache_slot(precompute)
       IN  threads' = [threads EXCEPT ![t] =
               [pc |-> IF slot.panic THEN "panicked" ELSE "get",
                api |-> api, precompute |-> precompute, slot |-> slot,
                cand |-> 0, ret |-> 0]]
    /\ UNCHANGED <<setupVars, cache>>
    /\ UNCHANGED <<settings, blobs, commitments, proofs, tampers, last>>

\* A get_or_init that runs the closure whatever the slot holds.
GetSlot_always_init(t) ==
    /\ threads[t].pc = "get"
    /\ threads' = [threads EXCEPT ![t].pc = "init"]
    /\ UNCHANGED <<setupVars, cache>>
    /\ UNCHANGED <<settings, blobs, commitments, proofs, tampers, last>>

\* get_or_init reads the slot: a stored box is the result, an empty slot sends
\* the thread into the closure.
GetSlot(t) ==
    /\ threads[t].pc = "get"
    /\ LET slot == cache[threads[t].slot.k]
       IN  IF slot.set
           THEN /\ threads' = [threads EXCEPT ![t].pc = "done", ![t].ret = slot.inst]
                /\ handles' = IF threads[t].api = "arc"
                              THEN WithOwners(handles, slot.inst, 1) ELSE handles
           ELSE /\ threads' = [threads EXCEPT ![t].pc = "init"]
                /\ UNCHANGED handles
    /\ UNCHANGED <<heap, loader_calls, open_files, level_loads, zkvm, cache>>
    /\ UNCHANGED <<settings, blobs, commitments, proofs, tampers, last>>

\* The closure: load_trusted_setup on the built-in points, `expect` on its
\* result, and the new settings in a fresh Arc.
InitSlot(t, res) ==
    /\ threads[t].pc = "init"
    /\ loader_calls < MaxCacheLoads
    /\ loader_calls' = loader_calls + 1
    /\ level_loads' = [level_loads EXCEPT ![threads[t].slot.k] = @ + 1]
    /\ IF res = "C_KZG_OK"
       THEN /\ heap' = Append(heap, [frees |-> 0])
            /\ handles' = Append(handles, [alloc |-> Len(heap) + 1, api |-> "mod",
                                           owners |-> 1,
                                           precompute |-> threads[t].slot.k])
            /\ threads' = [threads EXCEPT ![t].pc = "store",
                                          ![t].cand = Len(handles) + 1]
       ELSE /\ threads' = [threads EXCEPT ![t].pc = "panicked"]
            /\ UNCHANGED <<heap, handles>>
    /\ UNCHANGED <<open_files, zkvm, cache>>
    /\ UNCHANGED <<settings, blobs, commitments, proofs, tampers, last>>

\* The compare-and-exchange; the box of a thread that lost is dropped, and the
\* thread takes what the slot holds.
StoreSlot(t) ==
    /\ threads[t].pc = "store"
    /\ LET k == threads[t].slot.k
           r == once_box_store(cache[k], threads[t].cand)
           kept == IF r.won THEN handles ELSE WithOwners(handles, threads[t].cand, -1)
       IN  /\ cache' = [cache EXCEPT ![k] = r.slot]
           /\ heap' = Released(heap, kept, threads[t].cand)
           /\ handles' = IF threads[t].api = "arc"
                         THEN WithOwners(kept, r.slot.inst, 1) ELSE kept
           /\ threads' = [threads EXCEPT ![t].pc = "done", ![t].ret = r.slot.inst]
    /\ UNCHANGED <<loader_calls, open_files, level_loads, zkvm>>
    /\ UNCHANGED <<settings, blobs, commitments, proofs, tampers, last>>

\* The caller is done with the result (an Arc it got is dropped), or the
\* panicked thread is gone; the thread slot is free for the next call.
FinishCall(t) ==
    /\ threads[t].pc \in {"done", "panicked"}
    /\ LET kept == IF threads[t].pc = "done" /\ threads[t].api = "arc"
                   THEN WithOwners(handles, threads[t].ret, -1) ELSE handles
       IN  /\ handles' = kept
           /\ heap' = IF threads[t].pc = "done"
                      THEN Released(heap, kept, threads[t].ret) ELSE heap
    /\ threads' = [threads EXCEPT ![t] = IdleThread]
    /\ UNCHANGED <<loader_calls, open_files, level_loads, zkvm, cache>>
    /\ UNCHANGED <<settings, blobs, commitments, proofs, tampers, last>>

NextCache ==
    \/ \E t \in 1..MaxThreads, api \in CacheApis, precompute \in PrecomputeSamples :
           CallSettings(t, api, precompute)
    \/ \E t \in 1..MaxThreads : GetSlot(t)
    \/ \E t \in 1..MaxThreads, res \in CacheLoadCodes : InitSlot(t, res)
    \/ \E t \in 1..MaxThreads : StoreSlot(t)
    \/ \E t \in 1..MaxThreads : FinishCall(t)

SpecCache == InitCache /\ [][NextCache]_vars

(***************************************************************************)
(* Properties of the default settings.                                     *)
(***************************************************************************)
Threads == DOMAIN threads
Running(t) == threads[t].pc # "idle"

\* C14: a call with a precompute level above 15 panics: it returns no handle,
\* loads nothing and leaves every cache slot as it was.
C14_UnsupportedPrecompute ==
    /\ [](\A t \in Threads :
              (Running(t) /\ threads[t].precompute > MAX_PRECOMPUTE)
                  => threads[t].pc = "panicked")
    /\ [][\A t \in Threads :
              (~Running(t) /\ threads'[t].pc # "idle"
                   /\ threads'[t].precompute > MAX_PRECOMPUTE)
                  => UNCHANGED <<cache, heap, handles, loader_calls, open_files, level_loads, zkvm>>]_vars

\* C14 witness: a call with level 16 panicked while the slot of level 15 was
\* filled and another thread was inside a call.
C14_Witness ==
    /\ \E t \in Threads :
           /\ threads[t].pc = "panicked"
           /\ threads[t].precompute = MAX_PRECOMPUTE + 1
    /\ \E t \in Threads : threads[t].pc \in {"get", "init", "store"}
    /\ cache[MAX_PRECOMPUTE].set

\* The settings stored for level k are alive.
SlotAlive(k) ==
    cache[k].set =>
        /\ handles[cache[k].inst].owners >= 1
        /\ heap[handles[cache[k].inst].alloc].frees = 0

\* C15: every call for a level returns the instance stored in the slot of that
\* level, a filled slot keeps its instance for good, and the instance is never
\* freed.
C15_Singleton ==
    /\ [](\A t \in Threads :
              threads[t].pc = "done"
                  => /\ cache[threads[t].slot.k].set
                     /\ threads[t].ret = cache[threads[t].slot.k].inst)
    /\ [](\A k \in 0..MAX_PRECOMPUTE : SlotAlive(k))
    /\ [][\A k \in 0..MAX_PRECOMPUTE : cache[k].set => cache'[k] = cache[k]]_vars

\* C15 witness: two threads raced on the first call for level 0, both built a
\* setup, one was stored and the other released, and both hold the stored one.
C15_Witness ==
    /\ \A t \in Threads :
           /\ threads[t].pc = "done"
           /\ threads[t].slot.k = 0
           /\ threads[t].cand # 0
           /\ threads[t].ret = cache[0].inst
    /\ \E t \in Threads : threads[t].cand # threads[t].ret
    /\ \E a \in 1..Len(heap) : heap[a].frees = 1

\* The load of level k as first stated: run at most once in the life of the
\* process.
C26_LoadsOnce == \A k \in 0..MAX_PRECOMPUTE : level_loads[k] <= 1

InInitializer(k) ==
    \E t \in Threads : threads[t].pc = "init" /\ threads[t].slot.k = k
Settled(k) == cache[k].set /\ ~InInitializer(k)

\* C26: a call enters the initializer of level k only when it read slot k
\* empty; each load of level k is run by one call inside that initializer,
\* which leaves it with the load; and once slot k is filled and no call is
\* inside the initializer of k, the load of k is never run again.
C26_LoadsOnlyFromEmptySlot ==
    /\ [][\A t \in Threads :
              (threads[t].pc = "get" /\ threads'[t].pc = "init")
                  => ~cache[threads[t].slot.k].set]_vars
    /\ [][\A k \in 0..MAX_PRECOMPUTE :
              level_loads'[k] # level_loads[k]
                  => /\ level_loads'[k] = level_loads[k] + 1
                     /\ \E t \in Threads :
                            /\ threads[t].pc = "init" /\ threads[t].slot.k = k
                            /\ threads'[t].pc \in {"store", "panicked"}]_vars
    /\ [][\A k \in 0..MAX_PRECOMPUTE :
              Settled(k) => (Settled(k)' /\ level_loads'[k] = level_loads[k])]_vars

\* C26 witness: both threads made the first call for level 0 together, each
\* ran the load, and both calls have returned with the slot filled.
C26_Witness ==
    /\ level_loads[0] = 2
    /\ cache[0].set
    /\ \A t \in Threads : threads[t].pc = "done" /\ threads[t].slot.k = 0

BuiltFor(k) == {h \in 1..Len(handles) : handles[h].precompute = k}
AllocatedFor(k) == {h \in BuiltFor(k) : heap[handles[h].alloc].frees = 0}
InFlight(k) ==
    \E t \in Threads :
        threads[t].pc \in {"get", "init", "store"} /\ threads[t].slot.k = k

\* C27: when no call for level k is in flight and a setup was built for k,
\* the one stored in slot k is the only one of them still allocated and each
\* of the others was released exactly once; a step of a call for level k
\* leaves the slots of the other levels as they were, and entering or leaving
\* a call changes no slot.
C27_OneLiveInstance ==
    /\ [](\A k \in 0..MAX_PRECOMPUTE :
              (~InFlight(k) /\ BuiltFor(k) # {})
                  => /\ cache[k].set
                     /\ AllocatedFor(k) = {cache[k].inst}
                     /\ \A h \in BuiltFor(k) \ AllocatedFor(k) :
                            heap[handles[h].alloc].frees = 1)
    /\ [][\A t \in Threads :
              threads'[t] # threads[t]
                  => IF threads[t].pc \in {"get", "init", "store"}
                     THEN \A j \in 0..MAX_PRECOMPUTE :
                              j # threads[t].slot.k => cache'[j] = cache[j]
                     ELSE cache' = cache]_vars

\* C27 witness: no call is running, two setups were built for level 0 in a
\* race and one of them was released; the slot of level 15 is as it was.
C27_Witness ==
    /\ \A t \in Threads : threads[t].pc = "idle"
    /\ Cardinality(BuiltFor(0)) = 2
    /\ Cardinality(AllocatedFor(0)) = 1
    /\ cache[0].set /\ ~cache[MAX_PRECOMPUTE].set


(***************************************************************************)
(* The fixed-size byte types and their text form.  A string is a sequence  *)
(* of one-character strings; a byte here is any value of a u8.             *)
(***************************************************************************)
\* Blob::from_bytes that takes the leading bytes of a longer slice.
Blob_from_bytes_truncating(bytes) ==
    IF Len(bytes) < BYTES_PER_BLOB
    THEN Err("InvalidBytesLength",
             <<"Invalid byte length", BYTES_PER_BLOB, Len(bytes)>>, <<>>)
    ELSE Ok(SubSeq(bytes, 1, BYTES_PER_BLOB), <<>>)

Blob_from_bytes(bytes) ==
    IF Len(bytes) # BYTES_PER_BLOB
    THEN Err("InvalidBytesLength",
             <<"Invalid byte length", BYTES_PER_BLOB, Len(bytes)>>, <<>>)
    ELSE Ok(bytes, <<>>)

\* The sizes 32 and 48 of the source are the sizes of a field element and of a
\* compressed point.
Bytes32_from_bytes(bytes) ==
    IF Len(bytes) # BYTES_PER_FIELD_ELEMENT
    THEN Err("InvalidBytesLength",
             <<"Invalid byte length", BYTES_PER_FIELD_ELEMENT, Len(bytes)>>, <<>>)
    ELSE Ok(bytes, <<>>)

Bytes48_from_bytes(bytes) ==
    IF Len(bytes) # BYTES_PER_COMMITMENT
    THEN Err("InvalidBytesLength",
             <<"Invalid byte length", BYTES_PER_COMMITMENT, Len(bytes)>>, <<>>)
    ELSE Ok(bytes, <<>>)

KZGProof_from_bytes(bytes) ==
    IF Len(bytes) # BYTES_PER_PROOF
    THEN Err("InvalidKzgProof",
             <<"Invalid byte length", BYTES_PER_PROOF, Len(bytes)>>, <<>>)
    ELSE Ok(bytes, <<>>)

\* The message of this one names BYTES_PER_PROOF as the expected length.
KZGCommitment_from_bytes(bytes) ==
    IF Len(bytes) # BYTES_PER_COMMITMENT
    THEN Err("InvalidKzgCommitment",
             <<"Invalid byte length", BYTES_PER_PROOF, Len(bytes)>>, <<>>)
    ELSE Ok(bytes, <<>>)

ByteTypes == {"Blob", "Bytes32", "Bytes48", "KZGProof", "KZGCommitment"}

from_bytes(type, bytes) ==
    CASE type = "Blob" -> Blob_from_bytes(bytes)
      [] type = "Bytes32" -> Bytes32_from_bytes(bytes)
      [] type = "Bytes48" -> Bytes48_from_bytes(bytes)
      [] type = "KZGProof" -> KZGProof_from_bytes(bytes)
      [] type = "KZGCommitment" -> KZGCommitment_from_bytes(bytes)

\* The size of the array inside each type.
SizeOf(type) ==
    CASE type = "Blob" -> BYTES_PER_BLOB
      [] type = "Bytes32" -> BYTES_PER_FIELD_ELEMENT
      [] type = "Bytes48" -> BYTES_PER_COMMITMENT
      [] type = "KZGProof" -> BYTES_PER_PROOF
      [] type = "KZGCommitment" -> BYTES_PER_COMMITMENT

HexChars == <<"0", "1", "2", "3", "4", "5", "6", "7",
              "8", "9", "a", "b", "c", "d", "e", "f">>
UpperHexChars == <<"0", "1", "2", "3", "4", "5", "6", "7",
                   "8", "9", "A", "B", "C", "D", "E", "F">>

\* hex::encode: two lower-case digits per byte, high nibble first.
hex_encode(bytes) ==
    Flatten([i \in 1..Len(bytes) |->
                 <<HexChars[(bytes[i] \div 16) + 1], HexChars[(bytes[i] % 16) + 1]>>])

\* The value of a hex digit of either case, -1 for any other character.
hex_val(c) ==
    IF \E d \in 1..16 : HexChars[d] = c
    THEN (CHOOSE d \in 1..16 : HexChars[d] = c) - 1
    ELSE IF \E d \in 1..16 : UpperHexChars[d] = c
    THEN (CHOOSE d \in 1..16 : UpperHexChars[d] = c) - 1
    ELSE -1

\* hex::decode
hex_decode(str) ==
    IF Len(str) % 2 # 0 THEN [ok |-> FALSE, err |-> "OddLength"]
    ELSE IF \E i \in 1..Len(str) : hex_val(str[i]) < 0
    THEN [ok |-> FALSE, err |-> "InvalidHexCharacter"]
    ELSE [ok |-> TRUE,
          val |-> [i \in 1..(Len(str) \div 2) |->
                       16 * hex_val(str[2 * i - 1]) + hex_val(str[2 * i])]]

\* str::strip_prefix("0x")
strip_prefix_0x(value) ==
    IF Len(value) >= 2 /\ value[1] = "0" /\ value[2] = "x"
    THEN [some |-> TRUE, val |-> SubSeq(value, 3, Len(value))]
    ELSE [some |-> FALSE]

\* A serializer that writes the digits without the prefix.
serialize_bytes_bare(x) == hex_encode(x)

\* serialize_bytes: format!("0x{}", hex::encode(x))
serialize_bytes(x) == <<"0", "x">> \o hex_encode(x)

\* Deserialize for Blob, Bytes32, KzgCommitment and KzgProof: the same body
\* with the from_bytes of the type.
deserialize(type, value) ==
    LET stripped == strip_prefix_0x(value)
        bytes_res == IF stripped.some THEN hex_decode(stripped.val)
                     ELSE hex_decode(value)
    IN  IF ~bytes_res.ok THEN Err("custom", bytes_res.err, <<>>)
        ELSE LET v == from_bytes(type, bytes_res.val)
             IN  IF v.ok THEN v ELSE Err("custom", <<v.err, v.info>>, <<>>)

\* The types with a from_hex.
HexTypes == {"Blob", "Bytes32", "Bytes48"}

\* Blob::from_hex, Bytes32::from_hex, Bytes48::from_hex:
\* `Self::from_bytes(&hex::decode(&hex_str[2..]).unwrap())`.  The slice from
\* index 2 panics on a shorter string, the unwrap panics when the rest is no
\* hex string; the first two characters are not looked at.
from_hex(type, hex_str) ==
    IF Len(hex_str) < 2
    THEN [panicked |-> TRUE, ret |-> <<"byte index 2 is out of bounds">>]
    ELSE LET decoded == hex_decode(SubSeq(hex_str, 3, Len(hex_str)))
         IN  IF ~decoded.ok
             THEN [panicked |-> TRUE, ret |-> <<"unwrap on Err", decoded.err>>]
             ELSE [panicked |-> FALSE, ret |-> from_bytes(type, decoded.val)]

(***************************************************************************)
(* A caller that builds values from slices, writes them out and reads them *)
(* back.                                                                   *)
(***************************************************************************)
MaxPattern == 5

\* The types with a Serialize and Deserialize implementation.
SerdeTypes == {"Blob", "Bytes32", "KZGProof", "KZGCommitment"}

\* Byte strings of a length: zeros, 0xff bytes, and mixed bytes.
PatternBytes(k, n) ==
    [i \in 1..n |-> CASE k = 0 -> 0
                      [] k = 1 -> 255
                      [] OTHER -> (k * 41 + i * 67) % 256]

\* Lengths around the size of a type, and the empty slice.
LengthsFor(type) == {0, SizeOf(type) - 1, SizeOf(type), SizeOf(type) + 1}

\* Text that is no hex string of a value: an odd number of digits, a character
\* that is no digit, a lone prefix, the prefix twice.
BadStrings ==
    {<<"0", "x", "0">>, <<"0", "x", "g", "0">>, <<"0", "x">>,
     <<"0", "x", "0", "x", "0", "0", "0", "0">>, <<"0", "X", "0", "0", "0", "0">>}

\* Text shorter than the prefix.
ShortStrings == {<<>>, <<"0">>}

\* `T::from_bytes(slice)`
FromBytes(type, bytes) ==
    /\ last = NoCall
    /\ last' = [op |-> "from_bytes", type |-> type, bytes |-> bytes,
                ret |-> from_bytes(type, bytes)]
    /\ UNCHANGED <<settings, blobs, commitments, proofs, tampers>>
    /\ UNCHANGED <<setupVars, cacheVars>>

\* The value just built is serialized.
Serialize ==
    /\ last # NoCall /\ last.op = "from_bytes" /\ last.ret.ok
    /\ last.type \in SerdeTypes
    /\ last' = [op |-> "serialize", type |-> last.type, v |-> last.ret.val,
                ret |-> serialize_bytes(last.ret.val)]
    /\ UNCHANGED <<settings, blobs, commitments, proofs, tampers>>
    /\ UNCHANGED <<setupVars, cacheVars>>

\* The forms of the text handed to the deserializer: as written, without the
\* prefix, with upper-case digits, without the last digit.
TextForms == {"written", "no_prefix", "upper", "cut"}

Upper(str) ==
    [i \in 1..Len(str) |->
        IF i > 2 /\ hex_val(str[i]) >= 0 THEN UpperHexChars[hex_val(str[i]) + 1]
        ELSE str[i]]

TextIn(form, str) ==
    CASE form = "written" -> str
      [] form = "no_prefix" ->
             IF strip_prefix_0x(str).some THEN strip_prefix_0x(str).val ELSE str
      [] form = "upper" -> Upper(str)
      [] form = "cut" -> SubSeq(str, 1, Len(str) - 1)

\* The text just written is deserialized, in one of its forms.
Deserialize(form) ==
    /\ last # NoCall /\ last.op = "serialize"
    /\ LET value == TextIn(form, last.ret)
       IN  last' = [op |-> "deserialize", type |-> last.type, v |-> last.v,
                    written |-> last.ret, form |-> form, value |-> value,
                    ret |-> deserialize(last.type, value)]
    /\ UNCHANGED <<settings, blobs, commitments, proofs, tampers>>
    /\ UNCHANGED <<setupVars, cacheVars>>

\* Text from elsewhere is deserialized.
DeserializeText(type, value) ==
    /\ last = NoCall
    /\ last' = [op |-> "deserialize", type |-> type, v |-> <<>>,
                written |-> <<>>, form |-> "other", value |-> value,
                ret |-> deserialize(type, value)]
    /\ UNCHANGED <<settings, blobs, commitments, proofs, tampers>>
    /\ UNCHANGED <<setupVars, cacheVars>>

\* `T::from_hex(text)` on the text just written, in one of its forms.
FromHexWritten(type, form) ==
    /\ last # NoCall /\ last.op = "serialize"
    /\ LET hex_str == TextIn(form, last.ret)
           r == from_hex(type, hex_str)
       IN  last' = [op |-> "from_hex", type |-> type, hex_str |-> hex_str,
                    panicked |-> r.panicked, ret |-> r.ret]
    /\ UNCHANGED <<settings, blobs, commitments, proofs, tampers>>
    /\ UNCHANGED <<setupVars, cacheVars>>

\* `T::from_hex(text)` on text from elsewhere.
FromHexText(type, hex_str) ==
    /\ last = NoCall
    /\ LET r == from_hex(type, hex_str)
       IN  last' = [op |-> "from_hex", type |-> type, hex_str |-> hex_str,
                    panicked |-> r.panicked, ret |-> r.ret]
    /\ UNCHANGED <<settings, blobs, commitments, proofs, tampers>>
    /\ UNCHANGED <<setupVars, cacheVars>>

NextSerde ==
    \/ \E type \in ByteTypes, k \in 0..MaxPattern :
           \E n \in LengthsFor(type) : FromBytes(type, PatternBytes(k, n))
    \/ Serialize
    \/ \E form \in TextForms : Deserialize(form)
    \/ \E type \in SerdeTypes, value \in BadStrings : DeserializeText(type, value)
    \/ \E type \in HexTypes, form \in TextForms : FromHexWritten(type, form)
    \/ \E type \in HexTypes, hex_str \in BadStrings \cup ShortStrings :
           FromHexText(type, hex_str)
    \/ Return

SpecSerde == Init /\ [][NextSerde]_vars

(***************************************************************************)
(* Properties of the byte types.                                           *)
(***************************************************************************)
IsSerialize == last # NoCall /\ last.op = "serialize"
IsDeserialize == last # NoCall /\ last.op = "deserialize"

\* C17: a value is written as "0x" followed by two hex digits per byte, and
\* reading that text back, with or without the prefix, gives the value.
C17_SerdeRoundTrip ==
    /\ IsSerialize =>
           /\ Len(last.ret) = 2 + 2 * Len(last.v)
           /\ SubSeq(last.ret, 1, 2) = <<"0", "x">>
           /\ \A i \in 1..Len(last.v) :
                  /\ hex_val(last.ret[2 * i + 1]) = last.v[i] \div 16
                  /\ hex_val(last.ret[2 * i + 2]) = last.v[i] % 16
    /\ (IsDeserialize /\ last.form \in {"written", "no_prefix"})
           => (last.ret.ok /\ last.ret.val = last.v)

\* C17 witness: a blob with bytes above 0x9f read back from the text without
\* its prefix.
C17_Witness ==
    /\ IsDeserialize /\ last.form = "no_prefix" /\ last.type = "Blob"
    /\ Len(last.value) = 2 * BYTES_PER_BLOB
    /\ \E i \in 1..Len(last.v) : last.v[i] > 159
    /\ last.ret.ok /\ last.ret.val = last.v

IsFromBytes == last # NoCall /\ last.op = "from_bytes"

\* C19: from_bytes succeeds exactly for a slice of the size of the type; the
\* value then holds the bytes of the slice, and otherwise the result is a
\* length error.
C19_FixedSize ==
    IsFromBytes =>
        /\ last.ret.ok <=> (Len(last.bytes) = SizeOf(last.type))
        /\ last.ret.ok => last.ret.val = last.bytes
        /\ ~last.ret.ok =>
               /\ last.ret.err \in {"InvalidBytesLength", "InvalidKzgProof",
                                    "InvalidKzgCommitment"}
               /\ last.ret.info[1] = "Invalid byte length"

\* C19 witness: a slice one byte longer than a blob is rejected.
C19_Witness ==
    /\ IsFromBytes /\ last.type = "Blob"
    /\ Len(last.bytes) = BYTES_PER_BLOB + 1
    /\ ~last.ret.ok

IsFromHex == last # NoCall /\ last.op = "from_hex"

\* "0x" followed by two hex digits for each byte of the type.
IsHexOf(type, str) ==
    /\ Len(str) = 2 + 2 * SizeOf(type)
    /\ str[1] = "0" /\ str[2] = "x"
    /\ \A i \in 3..Len(str) : hex_val(str[i]) >= 0

\* C30: from_hex returns for every string; it returns Ok exactly for "0x"
\* followed by the hex digits of as many bytes as the type holds, and the
\* value is then those bytes.
C30_FromHexTotal ==
    IsFromHex =>
        /\ ~last.panicked
        /\ last.ret.ok <=> IsHexOf(last.type, last.hex_str)
        /\ last.ret.ok =>
               \A i \in 1..SizeOf(last.type) :
                   last.ret.val[i] = 16 * hex_val(last.hex_str[2 * i + 1])
                                       + hex_val(last.hex_str[2 * i + 2])


(***************************************************************************)
(* The allocator of the zkvm build (zkvm_allocs): malloc, calloc and free  *)
(* for the C library, on top of the global allocator of the guest.  Every  *)
(* block starts with a header of LEN_SIZE bytes that holds the requested   *)
(* size; the pointer handed out is the address after the header.  usize    *)
(* has WordBits bits.                                                      *)
(***************************************************************************)
WordBits == 6
UsizeRange == Pow2(WordBits)
ISIZE_MAX == UsizeRange \div 2 - 1
LEN_SIZE == 4
BLOCK_ALIGN == 4
ArenaBlocks == 4
MaxAllocs == 2
NULL == 0

\* The addresses the global allocator hands out: the multiples of BLOCK_ALIGN
\* in its arena.
ArenaAddrs == {BLOCK_ALIGN * u : u \in 1..ArenaBlocks}

\* usize arithmetic: a result outside the word panics in a build with overflow
\* checks and wraps in a build without.
usize(v, build) ==
    IF v < UsizeRange THEN [panic |-> FALSE, v |-> v]
    ELSE IF build = "overflow_checks" THEN [panic |-> TRUE]
    ELSE [panic |-> FALSE, v |-> v % UsizeRange]

\* Layout::from_size_align for a power-of-two alignment: an error when the
\* size rounded up to the alignment exceeds isize::MAX.
Layout_from_size_align(size, align) ==
    IF size > ISIZE_MAX - (align - 1)
    THEN [ok |-> FALSE]
    ELSE [ok |-> TRUE, size |-> size, align |-> align]

\* store_len: the size goes into the first word of the block, the result is
\* the address after it.
store_len(memory, block_ptr, size) ==
    [memory |-> [memory EXCEPT ![block_ptr] = size], ptr |-> block_ptr + LEN_SIZE]

\* get_len: the word before the pointer, and where it is.
get_len(memory, ptr) ==
    [len |-> memory[ptr - LEN_SIZE], base |-> ptr - LEN_SIZE]

\* The addresses a block of `size` bytes at `base` takes.
BlockAddrs(base, size) ==
    {base + BLOCK_ALIGN * u : u \in 0..((size + BLOCK_ALIGN - 1) \div BLOCK_ALIGN - 1)}

LiveAddrs(allocs) ==
    UNION {BlockAddrs(allocs[i].base, allocs[i].layout) :
               i \in {j \in 1..Len(allocs) : allocs[j].live}}

\* GlobalAlloc::alloc: the bases it may return for the layout, none when the
\* arena has no room.  A layout of size zero is outside its contract; an
\* allocator then returns an address it has not handed out and reserves
\* nothing at it.
alloc(allocs, layout) ==
    {base \in ArenaAddrs :
         /\ BlockAddrs(base, layout.size) \subseteq ArenaAddrs
         /\ BlockAddrs(base, layout.size) \cap LiveAddrs(allocs) = {}
         /\ base \notin LiveAddrs(allocs)}

ZkvmBuilds == {"overflow_checks", "wrapping"}
ZkvmInit(build) ==
    [build |-> build, allocs |-> <<>>, memory |-> [a \in ArenaAddrs |-> 0]]

InitAlloc ==
    /\ settings \in {KZGSettings(tau) : tau \in TauSamples}
    /\ blobs = <<>>
    /\ commitments = <<>>
    /\ proofs = <<>>
    /\ tampers = 0
    /\ last = NoCall
    /\ heap = <<>>
    /\ handles = <<>>
    /\ loader_calls = 0
    /\ open_files = 0
    /\ level_loads = [k \in 0..MAX_PRECOMPUTE |-> 0]
    /\ cache = [k \in 0..MAX_PRECOMPUTE |-> EmptySlot]
    /\ threads = <<>>
    /\ zkvm \in {ZkvmInit(build) : build \in ZkvmBuilds}

AllocUnchanged ==
    UNCHANGED <<settings, blobs, commitments, proofs, tampers, heap, handles,
                loader_calls, open_files, level_loads, cache, threads>>

\* A panic in an `extern "C"` function and handle_alloc_error end the process.
Aborted(call) ==
    /\ last' = [call EXCEPT !.op = "abort"]
    /\ UNCHANGED zkvm

\* The common tail of malloc and calloc: the layout of `size` bytes and the
\* header, the block from the global allocator, and the header written at its
\* start.  `requested` is the number of bytes the caller asked for.
Allocated(call, size, requested, base) ==
    LET total == usize(size + LEN_SIZE, zkvm.build)
        layout == Layout_from_size_align(total.v, BLOCK_ALIGN)
    IN  IF total.panic \/ ~layout.ok \/ alloc(zkvm.allocs, layout) = {}
        THEN Aborted(call)
        ELSE /\ base \in alloc(zkvm.allocs, layout)
             /\ LET stored == store_len(zkvm.memory, base, size)
                IN  /\ zkvm' = [zkvm EXCEPT
                                   !.memory = stored.memory,
                                   !.allocs = Append(@,
                                       [ptr |-> stored.ptr, base |-> base,
                                        layout |-> layout.size,
                                        requested |-> requested,
                                        live |-> layout.size > 0,
                                        freed |-> FALSE, freed_as |-> 0,
                                        released_by |-> 0])]
                    /\ last' = [call EXCEPT !.ptr = stored.ptr]

CanAllocate ==
    /\ last = NoCall
    /\ zkvm.build \in ZkvmBuilds
    /\ Len(zkvm.allocs) < MaxAllocs

malloc(size, base) ==
    /\ CanAllocate
    /\ Allocated([op |-> "malloc", size |-> size, ptr |-> NULL], size, size, base)
    /\ AllocUnchanged

calloc(nobj, size, base) ==
    /\ CanAllocate
    /\ LET call == [op |-> "calloc", nobj |-> nobj, size |-> size, ptr |-> NULL]
           product == usize(nobj * size, zkvm.build)
       IN  IF product.panic
           THEN Aborted(call)
           ELSE Allocated(call, product.v, nobj * size, base)
    /\ AllocUnchanged

\* dealloc(base_ptr, layout): the live block at base_ptr is given back.
dealloc(allocs, base_ptr, by) ==
    [j \in 1..Len(allocs) |->
        IF allocs[j].live /\ allocs[j].base = base_ptr
        THEN [allocs[j] EXCEPT !.live = FALSE, !.released_by = by]
        ELSE allocs[j]]

\* free of the pointer of allocation `i`, or of the null pointer (`i = 0`).
\* No pointer is freed twice.
free(i) ==
    /\ last = NoCall
    /\ zkvm.build \in ZkvmBuilds
    /\ i \in 0..Len(zkvm.allocs)
    /\ IF i = 0
       THEN /\ last' = [op |-> "free", i |-> 0, ptr |-> NULL, before |-> zkvm]
            /\ UNCHANGED zkvm
       ELSE /\ ~zkvm.allocs[i].freed
            /\ LET call == [op |-> "free", i |-> i, ptr |-> zkvm.allocs[i].ptr]
                   header == get_len(zkvm.memory, zkvm.allocs[i].ptr)
                   total == usize(header.len + LEN_SIZE, zkvm.build)
                   layout == Layout_from_size_align(total.v, BLOCK_ALIGN)
               IN  IF total.panic \/ ~layout.ok
                   THEN Aborted(call)
                   ELSE /\ zkvm' = [zkvm EXCEPT !.allocs =
                               [dealloc(@, header.base, i) EXCEPT
                                    ![i].freed = TRUE,
                                    ![i].freed_as = layout.size]]
                        /\ last' = call
    /\ AllocUnchanged

MallocSizes == {0, LEN_SIZE, 2 * LEN_SIZE, ISIZE_MAX - LEN_SIZE,
                UsizeRange - LEN_SIZE, UsizeRange - 1}
CallocArgs == {<<0, 2 * LEN_SIZE>>, <<1, LEN_SIZE>>, <<2, LEN_SIZE>>,
               <<UsizeRange \div LEN_SIZE, LEN_SIZE>>,
               <<UsizeRange \div LEN_SIZE + 1, LEN_SIZE>>}

NextAlloc ==
    \/ \E size \in MallocSizes, base \in ArenaAddrs : malloc(size, base)
    \/ \E args \in CallocArgs, base \in ArenaAddrs : calloc(args[1], args[2], base)
    \/ \E i \in 0..MaxAllocs : free(i)
    \/ Return

SpecAlloc == InitAlloc /\ [][NextAlloc]_vars

(***************************************************************************)
(* Properties of the zkvm allocator.                                       *)
(***************************************************************************)
Allocs == 1..Len(zkvm.allocs)

\* C28: free of a pointer releases the block that was allocated for it, with
\* the layout it was allocated with, and releases no block of another
\* pointer; free of the null pointer changes nothing.
C28_FreePairsWithAlloc ==
    /\ \A i \in Allocs :
           /\ zkvm.allocs[i].freed
                  => /\ zkvm.allocs[i].freed_as = zkvm.allocs[i].layout
                     /\ ~zkvm.allocs[i].live
           /\ zkvm.allocs[i].released_by \in {0, i}
    /\ (last.op = "free" /\ last.ptr = NULL) => zkvm = last.before

\* C29: the block behind a pointer that malloc or calloc returned has room
\* for the bytes that were asked for.
C29_NoSmallerBlock ==
    \A i \in Allocs :
        zkvm.allocs[i].layout - LEN_SIZE >= zkvm.allocs[i].requested

=============================================================================
